---- MODULE Spec2Model ----
(***************************************************************************)
(* Ghostkey_Simple: script interpretation and keystroke dispatch.          *)
(*                                                                         *)
(* Text is modelled as a sequence of character codes (a C++ char is its    *)
(* byte value 0..255), so that the arithmetic the firmware does on         *)
(* characters (c - 'a', key - 32) is the arithmetic of the model.          *)
(* The keyboard sink is modelled by the calls made on it: every            *)
(* Keyboard.press, Keyboard.releaseAll, Keyboard.write and every delay()   *)
(* appends one event to the log of the line being handled.                 *)
(***************************************************************************)
EXTENDS Integers, Sequences, FiniteSets, TLC

(***************************************************************************)
(* Bounds of the model.                                                    *)
(***************************************************************************)
MaxScriptLen == 2

\* the most lines a config.txt of the model holds
MaxConfigLines == 2

(***************************************************************************)
(* Key codes.  KEY_A .. KEY_0 are defined by lib/layout-utils.h; the       *)
(* others come from <Keyboard.h>.                                          *)
(***************************************************************************)
KEY_A == 4
KEY_1 == 30
KEY_2 == 31
KEY_3 == 32
KEY_4 == 33
KEY_5 == 34
KEY_6 == 35
KEY_7 == 36
KEY_8 == 37
KEY_9 == 38
KEY_0 == 39
KEY_LEFT_CTRL == 128
KEY_LEFT_SHIFT == 129
KEY_LEFT_ALT == 130
KEY_LEFT_GUI == 131
KEY_RETURN == 176
KEY_ESC == 177
KEY_BACKSPACE == 178
KEY_TAB == 179
KEY_CAPS_LOCK == 193
KEY_F1 == 194
KEY_F2 == 195
KEY_F3 == 196
KEY_F4 == 197
KEY_F5 == 198
KEY_F6 == 199
KEY_F7 == 200
KEY_F8 == 201
KEY_F9 == 202
KEY_F10 == 203
KEY_F11 == 204
KEY_F12 == 205
KEY_PRINT_SCREEN == 206
KEY_PAUSE == 208
KEY_INSERT == 209
KEY_HOME == 210
KEY_PAGE_UP == 211
KEY_DELETE == 212
KEY_END == 213
KEY_PAGE_DOWN == 214
KEY_RIGHT_ARROW == 215
KEY_LEFT_ARROW == 216
KEY_DOWN_ARROW == 217
KEY_UP_ARROW == 218
KEY_MENU == 237

(***************************************************************************)
(* String literals of the firmware, as sequences of character codes.       *)
(***************************************************************************)
S ==
  [ DEFAULT_DELAY |-> <<68, 69, 70, 65, 85, 76, 84, 95, 68, 69, 76, 65, 89>>,
    DEFAULTDELAY |-> <<68, 69, 70, 65, 85, 76, 84, 68, 69, 76, 65, 89>>,
    DELAY |-> <<68, 69, 76, 65, 89>>,
    STRING |-> <<83, 84, 82, 73, 78, 71>>,
    STRINGLN |-> <<83, 84, 82, 73, 78, 71, 76, 78>>,
    REPEAT |-> <<82, 69, 80, 69, 65, 84>>,
    GUI |-> <<71, 85, 73>>,
    WINDOWS |-> <<87, 73, 78, 68, 79, 87, 83>>,
    MENU |-> <<77, 69, 78, 85>>,
    APP |-> <<65, 80, 80>>,
    SHIFT |-> <<83, 72, 73, 70, 84>>,
    ALT |-> <<65, 76, 84>>,
    CTRL |-> <<67, 84, 82, 76>>,
    CONTROL |-> <<67, 79, 78, 84, 82, 79, 76>>,
    ENTER |-> <<69, 78, 84, 69, 82>>,
    SPACE |-> <<83, 80, 65, 67, 69>>,
    BACKSPACE |-> <<66, 65, 67, 75, 83, 80, 65, 67, 69>>,
    TAB |-> <<84, 65, 66>>,
    CAPSLOCK |-> <<67, 65, 80, 83, 76, 79, 67, 75>>,
    DELETE |-> <<68, 69, 76, 69, 84, 69>>,
    END |-> <<69, 78, 68>>,
    ESC |-> <<69, 83, 67>>,
    ESCAPE |-> <<69, 83, 67, 65, 80, 69>>,
    HOME |-> <<72, 79, 77, 69>>,
    INSERT |-> <<73, 78, 83, 69, 82, 84>>,
    PAGEUP |-> <<80, 65, 71, 69, 85, 80>>,
    PAGEDOWN |-> <<80, 65, 71, 69, 68, 79, 87, 78>>,
    PRINTSCREEN |-> <<80, 82, 73, 78, 84, 83, 67, 82, 69, 69, 78>>,
    F1 |-> <<70, 49>>,
    F2 |-> <<70, 50>>,
    F3 |-> <<70, 51>>,
    F4 |-> <<70, 52>>,
    F5 |-> <<70, 53>>,
    F6 |-> <<70, 54>>,
    F7 |-> <<70, 55>>,
    F8 |-> <<70, 56>>,
    F9 |-> <<70, 57>>,
    F10 |-> <<70, 49, 48>>,
    F11 |-> <<70, 49, 49>>,
    F12 |-> <<70, 49, 50>>,
    UP |-> <<85, 80>>,
    UPARROW |-> <<85, 80, 65, 82, 82, 79, 87>>,
    DOWN |-> <<68, 79, 87, 78>>,
    DOWNARROW |-> <<68, 79, 87, 78, 65, 82, 82, 79, 87>>,
    LEFT |-> <<76, 69, 70, 84>>,
    LEFTARROW |-> <<76, 69, 70, 84, 65, 82, 82, 79, 87>>,
    RIGHT |-> <<82, 73, 71, 72, 84>>,
    RIGHTARROW |-> <<82, 73, 71, 72, 84, 65, 82, 82, 79, 87>>,
    PAUSE |-> <<80, 65, 85, 83, 69>>,
    BREAK |-> <<66, 82, 69, 65, 75>>,
    REM |-> <<82, 69, 77>>,
    RUN |-> <<82, 85, 78>>,
    ADMIN |-> <<65, 68, 77, 73, 78>>,
    TYPE |-> <<84, 89, 80, 69>>,
    TYPELINE |-> <<84, 89, 80, 69, 76, 73, 78, 69>>,
    TYPESOFT |-> <<84, 89, 80, 69, 83, 79, 70, 84>>,
    OPENNOTPAD |-> <<79, 80, 69, 78, 78, 79, 84, 80, 65, 68>>,
    OPENPOWERSHELL |-> <<79, 80, 69, 78, 80, 79, 87, 69, 82, 83, 72, 69, 76, 76>>,
    OPENPOWERSHELLADMIN |-> <<79, 80, 69, 78, 80, 79, 87, 69, 82, 83, 72, 69, 76, 76, 65, 68, 77, 73, 78>>,
    OPENCMD |-> <<79, 80, 69, 78, 67, 77, 68>>,
    OPENCMDADMIN |-> <<79, 80, 69, 78, 67, 77, 68, 65, 68, 77, 73, 78>>,
    KILLAPP |-> <<75, 73, 76, 76, 65, 80, 80>>,
    MINIMIZE |-> <<77, 73, 78, 73, 77, 73, 90, 69>>,
    KILLALL |-> <<75, 73, 76, 76, 65, 76, 76>>,
    KEY |-> <<75, 69, 89>>,
    RETURN |-> <<82, 69, 84, 85, 82, 78>>,
    notepad |-> <<110, 111, 116, 101, 112, 97, 100>>,
    powershell |-> <<112, 111, 119, 101, 114, 115, 104, 101, 108, 108>>,
    cmd |-> <<99, 109, 100>>,
    a |-> <<97>>,
    c |-> <<99>>,
    v |-> <<118>>,
    x |-> <<120>>,
    z |-> <<122>>,
    y |-> <<121>>,
    s |-> <<115>>,
    r |-> <<114>>,
    SLASHES |-> <<47, 47>>,
    HASH |-> <<35>>,
    PLUS |-> <<43>> ]

\* the keys and values of config.txt and the names of the files on the card
K ==
  [ SCRIPT_MODE |-> <<83, 67, 82, 73, 80, 84, 95, 77, 79, 68, 69>>,
    DUCKY_SCRIPT_FILE |-> <<68, 85, 67, 75, 89, 95, 83, 67, 82, 73, 80, 84, 95, 70, 73, 76, 69>>,
    CUSTOM_SCRIPT_FILE |-> <<67, 85, 83, 84, 79, 77, 95, 83, 67, 82, 73, 80, 84, 95, 70, 73, 76, 69>>,
    TYPING_DELAY |-> <<84, 89, 80, 73, 78, 71, 95, 68, 69, 76, 65, 89>>,
    USE_LAYOUT_INDEPENDENT |-> <<85, 83, 69, 95, 76, 65, 89, 79, 85, 84, 95, 73, 78, 68, 69, 80, 69, 78, 68, 69, 78, 84>>,
    AUTORUN |-> <<65, 85, 84, 79, 82, 85, 78>>,
    INITIAL_DELAY |-> <<73, 78, 73, 84, 73, 65, 76, 95, 68, 69, 76, 65, 89>>,
    REPEAT_COUNT |-> <<82, 69, 80, 69, 65, 84, 95, 67, 79, 85, 78, 84>>,
    DEBUG_OUTPUT |-> <<68, 69, 66, 85, 71, 95, 79, 85, 84, 80, 85, 84>>,
    vtrue |-> <<116, 114, 117, 101>>,
    vyes |-> <<121, 101, 115>>,
    v1 |-> <<49>>,
    vfalse |-> <<102, 97, 108, 115, 101>>,
    vno |-> <<110, 111>>,
    v0 |-> <<48>>,
    SLASH |-> <<47>>,
    EQ |-> <<32, 61, 32>>,
    config_txt |-> <<47, 99, 111, 110, 102, 105, 103, 46, 116, 120, 116>>,
    payload_txt |-> <<47, 112, 97, 121, 108, 111, 97, 100, 46, 116, 120, 116>>,
    instructions_txt |-> <<47, 105, 110, 115, 116, 114, 117, 99, 116, 105, 111, 110, 115, 46, 116, 120, 116>>,
    test_layout_txt |-> <<47, 116, 101, 115, 116, 45, 108, 97, 121, 111, 117, 116, 46, 116, 120, 116>>,
    key_combo_test_txt |-> <<47, 107, 101, 121, 45, 99, 111, 109, 98, 111, 45, 116, 101, 115, 116, 46, 116, 120, 116>>,
    shift_key_test_txt |-> <<47, 115, 104, 105, 102, 116, 45, 107, 101, 121, 45, 116, 101, 115, 116, 46, 116, 120, 116>> ]

(***************************************************************************)
(* Arduino String operations used by the parsers (0-based indices, as in   *)
(* the C++ code).                                                          *)
(***************************************************************************)
Chars == 0..255

\* isspace(): space, \t, \n, \v, \f, \r
isSpace(c) == c = 32 \/ (c >= 9 /\ c <= 13)

\* s.substring(from, to): the characters at 0-based positions from .. to-1
substring(s, from, to) ==
  LET t == IF to > Len(s) THEN Len(s) ELSE to
  IN  IF from >= t THEN << >> ELSE SubSeq(s, from + 1, t)

\* s.substring(from): to the end of the string
substringFrom(s, from) == substring(s, from, Len(s))

\* s.trim(): leading and trailing whitespace removed
trim(s) ==
  LET nonSpace == { i \in 1..Len(s) : ~isSpace(s[i]) }
  IN  IF nonSpace = {} THEN << >>
      ELSE LET lo == CHOOSE i \in nonSpace : \A j \in nonSpace : i <= j
               hi == CHOOSE i \in nonSpace : \A j \in nonSpace : i >= j
           IN  SubSeq(s, lo, hi)

\* s.indexOf(ch, from): 0-based position of the first ch at or after from, or -1
indexOf(s, ch, from) ==
  LET hits == { i \in 0..(Len(s) - 1) : i >= from /\ s[i + 1] = ch }
  IN  IF hits = {} THEN -1 ELSE CHOOSE i \in hits : \A j \in hits : i <= j

\* s.startsWith(p)
startsWith(s, p) == Len(s) >= Len(p) /\ SubSeq(s, 1, Len(p)) = p

toLower(c) == IF c >= 65 /\ c <= 90 THEN c + 32 ELSE c

\* a.equals(b) where the code calls equalsIgnoreCase: C18 does not hold of it
equalsIgnoreCase_caseSensitive(a, b) == a = b

\* a.equalsIgnoreCase(b)
equalsIgnoreCase(a, b) ==
  /\ Len(a) = Len(b)
  /\ \A i \in 1..Len(a) : toLower(a[i]) = toLower(b[i])

isDigit(c) == c >= 48 /\ c <= 57

RECURSIVE digitsValue(_, _, _)
\* the value of the run of decimal digits of s that starts at 1-based position i
digitsValue(s, i, acc) ==
  IF i > Len(s) \/ ~isDigit(s[i]) THEN acc
  ELSE digitsValue(s, i + 1, acc * 10 + (s[i] - 48))

\* s.toInt(): atol() of the text: leading whitespace, an optional sign, then
\* digits; 0 when no number starts the text.  (The delay parameters of the
\* input lines are not negative, so the conversions to unsigned do not wrap.)
toInt(s) ==
  LET nonSpace == { i \in 1..Len(s) : ~isSpace(s[i]) }
  IN  IF nonSpace = {} THEN 0
      ELSE LET p == CHOOSE i \in nonSpace : \A j \in nonSpace : i <= j
           IN  IF s[p] = 45 THEN 0 - digitsValue(s, p + 1, 0)
               ELSE IF s[p] = 43 THEN digitsValue(s, p + 1, 0)
               ELSE digitsValue(s, p, 0)

(***************************************************************************)
(* Events on the keyboard sink and the clock.                              *)
(***************************************************************************)
Press(k) == [op |-> "press", k |-> k]
ReleaseAll == [op |-> "releaseAll", k |-> 0]
Write(c) == [op |-> "write", k |-> c]
Delay(ms) == [op |-> "delay", k |-> ms]

\* Keyboard.print(text): one write per character
KeyboardPrint(text) == [i \in 1..Len(text) |-> Write(text[i])]

\* Keyboard.println(text): the text, then "\r\n"
KeyboardPrintln(text) == KeyboardPrint(text) \o << Write(13), Write(10) >>

RECURSIVE concat(_)
\* the concatenation of a sequence of event sequences
concat(ss) == IF ss = << >> THEN << >> ELSE Head(ss) \o concat(Tail(ss))

(***************************************************************************)
(* lib/layout-utils.h                                                      *)
(***************************************************************************)
\* pressRawKey with the key pressed before Shift: C5 does not hold of it
pressRawKey_keyFirst(keycode, withShift) ==
  << Press(keycode) >> \o
    (IF withShift THEN << Press(KEY_LEFT_SHIFT), Delay(250) >> ELSE << >>)
    \o << Delay(250), ReleaseAll, Delay(50) >>

pressRawKey(keycode, withShift) ==
  (IF withShift THEN << Press(KEY_LEFT_SHIFT), Delay(250) >> ELSE << >>)
    \o << Press(keycode), Delay(250), ReleaseAll, Delay(50) >>

\* forceSendASCII sending the character as a key press and a release: C28
\* does not hold of it
forceSendASCII_pressRelease(c) == << Press(c), Delay(10), ReleaseAll >>

\* Keyboard.write(c); delay(10);
forceSendASCII(c) == << Write(c), Delay(10) >>

\* the character-to-keycode conversion of typeLayoutIndependentChar:
\* keycode 0 stands for "return without doing anything"
charKeycode(c) ==
  IF c >= 97 /\ c <= 122 THEN [keycode |-> KEY_A + (c - 97), useShift |-> FALSE]
  ELSE IF c >= 65 /\ c <= 90 THEN [keycode |-> KEY_A + (c - 65), useShift |-> TRUE]
  ELSE IF c >= 49 /\ c <= 57 THEN [keycode |-> KEY_1 + (c - 49), useShift |-> FALSE]
  ELSE IF c = 48 THEN [keycode |-> KEY_0, useShift |-> FALSE]
  ELSE CASE c = 33 -> [keycode |-> KEY_1, useShift |-> TRUE]           \* !
         [] c = 64 -> [keycode |-> KEY_2, useShift |-> TRUE]           \* @
         [] c = 35 -> [keycode |-> KEY_3, useShift |-> TRUE]           \* #
         [] c = 36 -> [keycode |-> KEY_4, useShift |-> TRUE]           \* $
         [] c = 37 -> [keycode |-> KEY_5, useShift |-> TRUE]           \* %
         [] c = 94 -> [keycode |-> KEY_6, useShift |-> TRUE]           \* ^
         [] c = 38 -> [keycode |-> KEY_7, useShift |-> TRUE]           \* &
         [] c = 42 -> [keycode |-> KEY_8, useShift |-> TRUE]           \* *
         [] c = 40 -> [keycode |-> KEY_9, useShift |-> TRUE]           \* (
         [] c = 41 -> [keycode |-> KEY_0, useShift |-> TRUE]           \* )
         [] c = 45 -> [keycode |-> 45, useShift |-> FALSE]             \* -
         [] c = 95 -> [keycode |-> 45, useShift |-> TRUE]              \* _
         [] c = 61 -> [keycode |-> 46, useShift |-> FALSE]             \* =
         [] c = 43 -> [keycode |-> 46, useShift |-> TRUE]              \* +
         [] c = 91 -> [keycode |-> 47, useShift |-> FALSE]             \* [
         [] c = 123 -> [keycode |-> 47, useShift |-> TRUE]             \* {
         [] c = 93 -> [keycode |-> 48, useShift |-> FALSE]             \* ]
         [] c = 125 -> [keycode |-> 48, useShift |-> TRUE]             \* }
         [] c = 92 -> [keycode |-> 49, useShift |-> FALSE]             \* backslash
         [] c = 124 -> [keycode |-> 49, useShift |-> TRUE]             \* |
         [] c = 59 -> [keycode |-> 51, useShift |-> FALSE]             \* ;
         [] c = 58 -> [keycode |-> 51, useShift |-> TRUE]              \* :
         [] c = 39 -> [keycode |-> 52, useShift |-> FALSE]             \* '
         [] c = 34 -> [keycode |-> 52, useShift |-> TRUE]              \* "
         [] c = 96 -> [keycode |-> 53, useShift |-> FALSE]             \* `
         [] c = 126 -> [keycode |-> 53, useShift |-> TRUE]             \* ~
         [] c = 44 -> [keycode |-> 54, useShift |-> FALSE]             \* ,
         [] c = 60 -> [keycode |-> 54, useShift |-> TRUE]              \* <
         [] c = 46 -> [keycode |-> 55, useShift |-> FALSE]             \* .
         [] c = 62 -> [keycode |-> 55, useShift |-> TRUE]              \* >
         [] c = 47 -> [keycode |-> 56, useShift |-> FALSE]             \* /
         [] c = 63 -> [keycode |-> 56, useShift |-> TRUE]              \* ?
         [] c = 32 -> [keycode |-> 44, useShift |-> FALSE]             \* space
         [] OTHER -> [keycode |-> 0, useShift |-> FALSE]               \* default: return

\* typeLayoutIndependentChar with useShift dropped: C4 does not hold of it
typeLayoutIndependentChar_noShift(c) ==
  LET m == charKeycode(c)
  IN  IF m.keycode > 0 THEN pressRawKey(m.keycode, FALSE) ELSE << >>

\* typeLayoutIndependentChar without the return of the default case and the
\* keycode > 0 guard: C6 does not hold of it
typeLayoutIndependentChar_noGuard(c) ==
  pressRawKey(charKeycode(c).keycode, charKeycode(c).useShift)

typeLayoutIndependentChar(c) ==
  LET m == charKeycode(c)
  IN  IF m.keycode > 0 THEN pressRawKey(m.keycode, m.useShift) ELSE << >>

typeLayoutIndependent(text) ==
  concat([i \in 1..Len(text) |-> typeLayoutIndependentChar(text[i]) \o << Delay(20) >>])

typeLayoutIndependentWithDelay(text, delayMs) ==
  concat([i \in 1..Len(text) |-> typeLayoutIndependentChar(text[i]) \o << Delay(delayMs) >>])

typeDirectASCII(text) ==
  concat([i \in 1..Len(text) |-> forceSendASCII(text[i]) \o << Delay(20) >>])

(***************************************************************************)
(* main.ino: compile-time options                                          *)
(***************************************************************************)
USE_LAYOUT_INDEPENDENT == TRUE

\* const unsigned long TYPING_DELAY, used by typeWithDelay
TYPING_DELAY == 25

(***************************************************************************)
(* main.ino: pressKey                                                      *)
(***************************************************************************)
pressKey(keyString0) ==
  LET keyString == trim(keyString0)
  IN  IF Len(keyString) = 1
      THEN IF USE_LAYOUT_INDEPENDENT
           THEN typeLayoutIndependentChar(keyString[1])
           ELSE << Press(keyString[1]) >>
      ELSE CASE keyString = S.CTRL \/ keyString = S.CONTROL -> << Press(KEY_LEFT_CTRL) >>
             [] keyString = S.SHIFT -> << Press(KEY_LEFT_SHIFT) >>
             [] keyString = S.ALT -> << Press(KEY_LEFT_ALT) >>
             [] keyString = S.GUI \/ keyString = S.WINDOWS -> << Press(KEY_LEFT_GUI) >>
             [] keyString = S.ENTER -> << Press(KEY_RETURN) >>
             [] keyString = S.SPACE ->
                  IF USE_LAYOUT_INDEPENDENT THEN pressRawKey(44, FALSE) ELSE << Press(32) >>
             [] keyString = S.BACKSPACE -> << Press(KEY_BACKSPACE) >>
             [] keyString = S.TAB -> << Press(KEY_TAB) >>
             [] keyString = S.CAPSLOCK -> << Press(KEY_CAPS_LOCK) >>
             [] keyString = S.DELETE -> << Press(KEY_DELETE) >>
             [] keyString = S.END -> << Press(KEY_END) >>
             [] keyString = S.ESC \/ keyString = S.ESCAPE -> << Press(KEY_ESC) >>
             [] keyString = S.HOME -> << Press(KEY_HOME) >>
             [] keyString = S.INSERT -> << Press(KEY_INSERT) >>
             [] keyString = S.PAGEUP -> << Press(KEY_PAGE_UP) >>
             [] keyString = S.PAGEDOWN -> << Press(KEY_PAGE_DOWN) >>
             [] keyString = S.PRINTSCREEN -> << Press(KEY_PRINT_SCREEN) >>
             [] keyString = S.F1 -> << Press(KEY_F1) >>
             [] keyString = S.F2 -> << Press(KEY_F2) >>
             [] keyString = S.F3 -> << Press(KEY_F3) >>
             [] keyString = S.F4 -> << Press(KEY_F4) >>
             [] keyString = S.F5 -> << Press(KEY_F5) >>
             [] keyString = S.F6 -> << Press(KEY_F6) >>
             [] keyString = S.F7 -> << Press(KEY_F7) >>
             [] keyString = S.F8 -> << Press(KEY_F8) >>
             [] keyString = S.F9 -> << Press(KEY_F9) >>
             [] keyString = S.F10 -> << Press(KEY_F10) >>
             [] keyString = S.F11 -> << Press(KEY_F11) >>
             [] keyString = S.F12 -> << Press(KEY_F12) >>
             [] keyString = S.UP \/ keyString = S.UPARROW -> << Press(KEY_UP_ARROW) >>
             [] keyString = S.DOWN \/ keyString = S.DOWNARROW -> << Press(KEY_DOWN_ARROW) >>
             [] keyString = S.LEFT \/ keyString = S.LEFTARROW -> << Press(KEY_LEFT_ARROW) >>
             [] keyString = S.RIGHT \/ keyString = S.RIGHTARROW -> << Press(KEY_RIGHT_ARROW) >>
             [] keyString = S.PAUSE \/ keyString = S.BREAK -> << Press(KEY_PAUSE) >>
             [] keyString = S.MENU \/ keyString = S.APP -> << Press(KEY_MENU) >>
             [] OTHER -> << >>

(***************************************************************************)
(* main.ino: processDuckyLine.  A handler is an operator from the line,    *)
(* the configuration and the session variables to the events it emits and  *)
(* the session variables it leaves.                                        *)
(***************************************************************************)
\* duckySplit without params.trim(): C19 does not hold of it
duckySplit_noTrim(line) ==
  LET spaceIndex == indexOf(line, 32, 0)
  IN  IF spaceIndex # -1
      THEN [command |-> trim(substring(line, 0, spaceIndex)),
            params |-> substringFrom(line, spaceIndex + 1)]
      ELSE [command |-> line, params |-> << >>]

\* the command and parameters of a space-delimited line
duckySplit(line) ==
  LET spaceIndex == indexOf(line, 32, 0)
  IN  IF spaceIndex # -1
      THEN [command |-> trim(substring(line, 0, spaceIndex)),
            params |-> trim(substringFrom(line, spaceIndex + 1))]
      ELSE [command |-> line, params |-> << >>]

\* GUI / WINDOWS
duckyGUI(params, cfg) ==
  IF Len(params) > 0
  THEN << Press(KEY_LEFT_GUI), Delay(50) >> \o
       (IF Len(params) = 1
        THEN LET key == params[1]
             IN  IF cfg.useLayoutIndependent /\ key >= 97 /\ key <= 122
                 THEN << Press(KEY_A + (key - 97)), Delay(100), ReleaseAll >>
                 ELSE << Press(key), Delay(100), ReleaseAll >>
        ELSE pressKey(params) \o << Delay(100), ReleaseAll >>)
  ELSE << Press(KEY_LEFT_GUI), Delay(100), ReleaseAll >>

\* the named keys SHIFT presses by direct keycode
shiftNamedKey(params) ==
  IF equalsIgnoreCase(params, S.RIGHT) \/ equalsIgnoreCase(params, S.RIGHTARROW)
    THEN << Press(KEY_RIGHT_ARROW) >>
  ELSE IF equalsIgnoreCase(params, S.LEFT) \/ equalsIgnoreCase(params, S.LEFTARROW)
    THEN << Press(KEY_LEFT_ARROW) >>
  ELSE IF equalsIgnoreCase(params, S.UP) \/ equalsIgnoreCase(params, S.UPARROW)
    THEN << Press(KEY_UP_ARROW) >>
  ELSE IF equalsIgnoreCase(params, S.DOWN) \/ equalsIgnoreCase(params, S.DOWNARROW)
    THEN << Press(KEY_DOWN_ARROW) >>
  ELSE IF equalsIgnoreCase(params, S.TAB)
    THEN << Press(KEY_TAB) >>
  ELSE pressKey(params)

\* SHIFT
duckySHIFT(params, cfg) ==
  IF Len(params) > 0
  THEN IF Len(params) = 1
       THEN LET key == params[1]
            IN  IF key >= 97 /\ key <= 122
                THEN << Write(key - 32), Delay(50) >>
                ELSE << Press(KEY_LEFT_SHIFT), Delay(250) >> \o
                     (IF cfg.useLayoutIndependent /\ key >= 48 /\ key <= 57
                      THEN << Press(IF key = 48 THEN KEY_0 ELSE KEY_1 + (key - 49)) >>
                      ELSE << Press(key) >>) \o
                     << Delay(250), ReleaseAll, Delay(50) >>
       ELSE << Press(KEY_LEFT_SHIFT), Delay(250) >> \o shiftNamedKey(params) \o
            << Delay(250), ReleaseAll, Delay(50) >>
  ELSE << Press(KEY_LEFT_SHIFT), Delay(250), ReleaseAll, Delay(50) >>

\* ALT
duckyALT(params, cfg) ==
  IF Len(params) > 0
  THEN << Press(KEY_LEFT_ALT), Delay(200) >> \o
       (IF Len(params) = 1
        THEN LET key == params[1]
             IN  IF cfg.useLayoutIndependent /\ key >= 97 /\ key <= 122
                 THEN << Press(KEY_A + (key - 97)), Delay(200), ReleaseAll >>
                 ELSE << Press(key), Delay(200), ReleaseAll >>
        ELSE pressKey(params) \o << Delay(200), ReleaseAll >>)
  ELSE << Press(KEY_LEFT_ALT), Delay(200), ReleaseAll >>

\* CTRL / CONTROL
duckyCTRL(params, cfg) ==
  IF Len(params) > 0
  THEN << Press(KEY_LEFT_CTRL), Delay(200) >> \o
       (IF Len(params) = 1
        THEN LET key == params[1]
             IN  IF cfg.useLayoutIndependent /\ key >= 97 /\ key <= 122
                 THEN << Press(KEY_A + (key - 97)), Delay(200), ReleaseAll >>
                 ELSE << Press(key), Delay(200), ReleaseAll >>
        ELSE pressKey(params) \o << Delay(200), ReleaseAll >>)
  ELSE << Press(KEY_LEFT_CTRL), Delay(200), ReleaseAll >>

\* the single-key commands: whether command is one, and what it emits
duckySingleKey(command, cfg) ==
  LET tap(k) == [known |-> TRUE, events |-> << Press(k), ReleaseAll >>]
      hold50(k) == [known |-> TRUE, events |-> << Press(k), Delay(50), ReleaseAll >>]
      hold200(k) == [known |-> TRUE,
                     events |-> << Press(k), Delay(200), ReleaseAll, Delay(50) >>]
  IN  CASE command = S.ENTER -> hold50(KEY_RETURN)
        [] command = S.SPACE ->
             IF cfg.useLayoutIndependent
             THEN [known |-> TRUE, events |-> pressRawKey(44, FALSE)]
             ELSE hold50(32)
        [] command = S.BACKSPACE -> hold200(KEY_BACKSPACE)
        [] command = S.TAB -> hold200(KEY_TAB)
        [] command = S.CAPSLOCK -> hold50(KEY_CAPS_LOCK)
        [] command = S.DELETE -> hold50(KEY_DELETE)
        [] command = S.END -> hold50(KEY_END)
        [] command = S.ESC \/ command = S.ESCAPE -> hold50(KEY_ESC)
        [] command = S.HOME -> hold50(KEY_HOME)
        [] command = S.INSERT -> hold50(KEY_INSERT)
        [] command = S.PAGEUP -> hold50(KEY_PAGE_UP)
        [] command = S.PAGEDOWN -> hold50(KEY_PAGE_DOWN)
        [] command = S.PRINTSCREEN -> tap(KEY_PRINT_SCREEN)
        [] command = S.F1 -> tap(KEY_F1)
        [] command = S.F2 -> tap(KEY_F2)
        [] command = S.F3 -> tap(KEY_F3)
        [] command = S.F4 -> tap(KEY_F4)
        [] command = S.F5 -> tap(KEY_F5)
        [] command = S.F6 -> tap(KEY_F6)
        [] command = S.F7 -> tap(KEY_F7)
        [] command = S.F8 -> tap(KEY_F8)
        [] command = S.F9 -> tap(KEY_F9)
        [] command = S.F10 -> tap(KEY_F10)
        [] command = S.F11 -> tap(KEY_F11)
        [] command = S.F12 -> tap(KEY_F12)
        [] command = S.UP \/ command = S.UPARROW -> hold50(KEY_UP_ARROW)
        [] command = S.DOWN \/ command = S.DOWNARROW -> hold50(KEY_DOWN_ARROW)
        [] command = S.LEFT \/ command = S.LEFTARROW -> hold50(KEY_LEFT_ARROW)
        [] command = S.RIGHT \/ command = S.RIGHTARROW -> hold50(KEY_RIGHT_ARROW)
        [] command = S.PAUSE \/ command = S.BREAK -> hold50(KEY_PAUSE)
        [] OTHER -> [known |-> FALSE, events |-> << >>]

RECURSIVE splitPlus(_, _, _)
\* the while loop that cuts the line at its '+' signs into at most 5 keys
splitPlus(line, startIndex, keys) ==
  LET plusIndex == indexOf(line, 43, startIndex)
  IN  IF plusIndex # -1 /\ Len(keys) < 5
      THEN splitPlus(line, plusIndex + 1, Append(keys, substring(line, startIndex, plusIndex)))
      ELSE IF startIndex < Len(line) /\ Len(keys) < 5
           THEN Append(keys, substringFrom(line, startIndex))
           ELSE keys

\* the split with an array of four keys only: C33 does not hold of it
combinedKeys_fourKeys(line) ==
  LET keys == splitPlus(line, 0, << >>)
  IN  IF Len(keys) > 4 THEN SubSeq(keys, 1, 4) ELSE keys

combinedKeys(line) == splitPlus(line, 0, << >>)

\* the '+' combination branch without its releaseAll: C1 does not hold of it
duckyCombination_noRelease(line) ==
  LET keys == combinedKeys(line)
  IN  concat([i \in 1..Len(keys) |-> pressKey(keys[i])])

\* the '+' combination branch pressing its keys last to first: C34 does not
\* hold of it
duckyCombination_reversed(line) ==
  LET keys == combinedKeys(line)
  IN  concat([i \in 1..Len(keys) |-> pressKey(keys[Len(keys) + 1 - i])]) \o << ReleaseAll >>

\* the '+' combination branch: press every key, then release all
duckyCombination(line) ==
  LET keys == combinedKeys(line)
  IN  concat([i \in 1..Len(keys) |-> pressKey(keys[i])]) \o << ReleaseAll >>

\* the '+' test that looks at the command word only: C36 does not hold of it
isCombination_commandOnly(line, command) == indexOf(command, 43, 0) # -1

\* line.indexOf("+") != -1: the test of the '+' combination branch, made on
\* the whole line once no command has matched
isCombination(line, command) == indexOf(line, 43, 0) # -1

\* processDuckyLine with a REPEAT that keeps a count of 0, the default of
\* one pass forgotten: C17 does not hold of it
processDuckyLine_repeatNoDefault(line0, cfg, st) ==
  LET line == trim(line0)
      same(ev) == [events |-> ev \o << Delay(st.defaultDelay) >>,
                   defaultDelay |-> st.defaultDelay,
                   repeatScriptMode |-> st.repeatScriptMode,
                   repeatScriptCount |-> st.repeatScriptCount]
      led == << Delay(25) >>
  IN  IF startsWith(line, S.REM)
      THEN [events |-> led,
            defaultDelay |-> st.defaultDelay,
            repeatScriptMode |-> st.repeatScriptMode,
            repeatScriptCount |-> st.repeatScriptCount]
      ELSE
        LET command == duckySplit(line).command
            params == duckySplit(line).params
        IN  IF command = S.DEFAULT_DELAY \/ command = S.DEFAULTDELAY
            THEN [events |-> led \o << Delay(toInt(params)) >>,
                  defaultDelay |-> toInt(params),
                  repeatScriptMode |-> st.repeatScriptMode,
                  repeatScriptCount |-> st.repeatScriptCount]
            ELSE IF command = S.DELAY
            THEN same(led \o << Delay(toInt(params)) >>)
            ELSE IF command = S.STRING
            THEN same(led \o (IF cfg.useLayoutIndependent
                              THEN typeLayoutIndependent(params)
                              ELSE KeyboardPrint(params)))
            ELSE IF command = S.STRINGLN
            THEN same(led \o (IF cfg.useLayoutIndependent
                              THEN typeLayoutIndependent(params) \o
                                   << Delay(50), Press(KEY_RETURN), Delay(50), ReleaseAll >>
                              ELSE KeyboardPrintln(params)))
            ELSE IF command = S.REPEAT
            THEN [events |-> led \o << Delay(st.defaultDelay) >>,
                  defaultDelay |-> st.defaultDelay,
                  repeatScriptMode |-> TRUE,
                  repeatScriptCount |-> toInt(params)]
            ELSE IF command = S.GUI \/ command = S.WINDOWS
            THEN same(led \o duckyGUI(params, cfg))
            ELSE IF command = S.MENU \/ command = S.APP
            THEN same(led \o << Press(KEY_MENU), ReleaseAll >>)
            ELSE IF command = S.SHIFT
            THEN same(led \o duckySHIFT(params, cfg))
            ELSE IF command = S.ALT
            THEN same(led \o duckyALT(params, cfg))
            ELSE IF command = S.CTRL \/ command = S.CONTROL
            THEN same(led \o duckyCTRL(params, cfg))
            ELSE IF duckySingleKey(command, cfg).known
            THEN same(led \o duckySingleKey(command, cfg).events)
            ELSE IF indexOf(line, 43, 0) # -1
            THEN same(led \o duckyCombination(line))
            ELSE same(led)

processDuckyLine(line0, cfg, st) ==
  LET line == trim(line0)
      same(ev) == [events |-> ev \o << Delay(st.defaultDelay) >>,
                   defaultDelay |-> st.defaultDelay,
                   repeatScriptMode |-> st.repeatScriptMode,
                   repeatScriptCount |-> st.repeatScriptCount]
      led == << Delay(25) >>
  IN  IF startsWith(line, S.REM)
      THEN [events |-> led,
            defaultDelay |-> st.defaultDelay,
            repeatScriptMode |-> st.repeatScriptMode,
            repeatScriptCount |-> st.repeatScriptCount]
      ELSE
        LET command == duckySplit(line).command
            params == duckySplit(line).params
        IN  IF command = S.DEFAULT_DELAY \/ command = S.DEFAULTDELAY
            THEN [events |-> led \o << Delay(toInt(params)) >>,
                  defaultDelay |-> toInt(params),
                  repeatScriptMode |-> st.repeatScriptMode,
                  repeatScriptCount |-> st.repeatScriptCount]
            ELSE IF command = S.DELAY
            THEN same(led \o << Delay(toInt(params)) >>)
            ELSE IF command = S.STRING
            THEN same(led \o (IF cfg.useLayoutIndependent
                              THEN typeLayoutIndependent(params)
                              ELSE KeyboardPrint(params)))
            ELSE IF command = S.STRINGLN
            THEN same(led \o (IF cfg.useLayoutIndependent
                              THEN typeLayoutIndependent(params) \o
                                   << Delay(50), Press(KEY_RETURN), Delay(50), ReleaseAll >>
                              ELSE KeyboardPrintln(params)))
            ELSE IF command = S.REPEAT
            THEN [events |-> led \o << Delay(st.defaultDelay) >>,
                  defaultDelay |-> st.defaultDelay,
                  repeatScriptMode |-> TRUE,
                  repeatScriptCount |-> IF toInt(params) = 0 THEN 1 ELSE toInt(params)]
            ELSE IF command = S.GUI \/ command = S.WINDOWS
            THEN same(led \o duckyGUI(params, cfg))
            ELSE IF command = S.MENU \/ command = S.APP
            THEN same(led \o << Press(KEY_MENU), ReleaseAll >>)
            ELSE IF command = S.SHIFT
            THEN same(led \o duckySHIFT(params, cfg))
            ELSE IF command = S.ALT
            THEN same(led \o duckyALT(params, cfg))
            ELSE IF command = S.CTRL \/ command = S.CONTROL
            THEN same(led \o duckyCTRL(params, cfg))
            ELSE IF duckySingleKey(command, cfg).known
            THEN same(led \o duckySingleKey(command, cfg).events)
            ELSE IF isCombination(line, command)
            THEN same(led \o duckyCombination(line))
            ELSE same(led)

(***************************************************************************)
(* lib/simple-instructions.h is not part of the sources at hand: its       *)
(* macros are modelled from the design description (section 4.3, "Window/  *)
(* process macros": fixed canned sequences of the modifier + key           *)
(* primitive, each closed by a release-all and a settle delay).            *)
(***************************************************************************)
\* RUN: open the run dialog (GUI + r)
run == << Press(KEY_LEFT_GUI), Press(114), ReleaseAll, Delay(500) >>

\* ADMIN: trigger elevation (CTRL + SHIFT + ENTER)
admin ==
  << Press(KEY_LEFT_CTRL), Press(KEY_LEFT_SHIFT), Press(KEY_RETURN), ReleaseAll, Delay(500) >>

\* KILLAPP: close the current window (ALT + F4)
killApp == << Press(KEY_LEFT_ALT), Press(KEY_F4), ReleaseAll, Delay(500) >>

\* MINIMIZE: minimize all windows (GUI + m)
minimize == << Press(KEY_LEFT_GUI), Press(109), ReleaseAll, Delay(500) >>

(***************************************************************************)
(* lib/complex-instructions.h (SLOW_TYPING is not defined by main.ino)     *)
(***************************************************************************)
typeCommand(text) == KeyboardPrintln(text)

\* KILLALL: close all windows using PowerShell
killall == run \o typeCommand(S.powershell) \o << Delay(1000) >>

openNotepad == run \o typeCommand(S.notepad) \o << Delay(1000) >>

openPowerShell == run \o typeCommand(S.powershell) \o << Delay(1000) >>

openPowerShellAdmin == run \o typeCommand(S.powershell) \o admin \o << Delay(1000) >>

openCmd == run \o typeCommand(S.cmd) \o << Delay(1000) >>

openCmdAdmin == run \o typeCommand(S.cmd) \o admin \o << Delay(1000) >>

(***************************************************************************)
(* main.ino: typeWithDelay, processInstructionLine                         *)
(***************************************************************************)
typeWithDelay(text) ==
  concat([i \in 1..Len(text) |-> << Write(text[i]), Delay(TYPING_DELAY) >>])

\* the command and parameters of a colon-delimited line
instructionSplit(line) ==
  LET separatorIndex == indexOf(line, 58, 0)
  IN  IF separatorIndex # -1
      THEN [command |-> trim(substring(line, 0, separatorIndex)),
            params |-> trim(substringFrom(line, separatorIndex + 1))]
      ELSE [command |-> line, params |-> << >>]

instructionEvents(command, params, cfg) ==
  LET is(name) == equalsIgnoreCase(command, name)
  IN  IF is(S.DELAY) THEN << Delay(toInt(params)) >>
      ELSE IF is(S.RUN) THEN run
      ELSE IF is(S.ADMIN) THEN admin
      ELSE IF is(S.TYPE)
        THEN IF cfg.useLayoutIndependent
             THEN typeLayoutIndependent(params)
             ELSE KeyboardPrint(params)
      ELSE IF is(S.TYPELINE)
        THEN IF cfg.useLayoutIndependent
             THEN typeLayoutIndependent(params) \o << Press(KEY_RETURN), ReleaseAll >>
             ELSE KeyboardPrintln(params)
      ELSE IF is(S.TYPESOFT)
        THEN IF cfg.useLayoutIndependent
             THEN typeLayoutIndependentWithDelay(params, cfg.typingDelay)
             ELSE typeWithDelay(params)
      ELSE IF is(S.OPENNOTPAD) THEN openNotepad
      ELSE IF is(S.OPENPOWERSHELL) THEN openPowerShell
      ELSE IF is(S.OPENPOWERSHELLADMIN) THEN openPowerShellAdmin
      ELSE IF is(S.OPENCMD) THEN openCmd
      ELSE IF is(S.OPENCMDADMIN) THEN openCmdAdmin
      ELSE IF is(S.KILLAPP) THEN killApp
      ELSE IF is(S.MINIMIZE) THEN minimize
      ELSE IF is(S.KILLALL) THEN killall
      ELSE IF is(S.KEY)
        THEN IF equalsIgnoreCase(params, S.RETURN) \/ equalsIgnoreCase(params, S.ENTER)
             THEN << Press(KEY_RETURN), ReleaseAll >>
             ELSE IF equalsIgnoreCase(params, S.TAB)
             THEN << Press(KEY_TAB), ReleaseAll >>
             ELSE << >>
      ELSE << >>

\* processInstructionLine without the delay(defaultDelay) that ends it: C14
\* does not hold of it
processInstructionLine_noDefaultDelay(line, cfg, st) ==
  LET command == instructionSplit(line).command
      params == instructionSplit(line).params
  IN  [events |-> << Delay(50) >> \o instructionEvents(command, params, cfg),
       defaultDelay |-> st.defaultDelay,
       repeatScriptMode |-> st.repeatScriptMode,
       repeatScriptCount |-> st.repeatScriptCount]

\* processInstructionLine leaving the repeat mode switched off: C27 does not
\* hold of it
processInstructionLine_resetsRepeat(line, cfg, st) ==
  LET command == instructionSplit(line).command
      params == instructionSplit(line).params
  IN  [events |-> << Delay(50) >> \o instructionEvents(command, params, cfg)
                    \o << Delay(st.defaultDelay) >>,
       defaultDelay |-> st.defaultDelay,
       repeatScriptMode |-> FALSE,
       repeatScriptCount |-> 0]

processInstructionLine(line, cfg, st) ==
  LET command == instructionSplit(line).command
      params == instructionSplit(line).params
  IN  [events |-> << Delay(50) >> \o instructionEvents(command, params, cfg)
                    \o << Delay(st.defaultDelay) >>,
       defaultDelay |-> st.defaultDelay,
       repeatScriptMode |-> st.repeatScriptMode,
       repeatScriptCount |-> st.repeatScriptCount]

(***************************************************************************)
(* Direct ASCII mode: processDuckyLine_DirectASCII                         *)
(***************************************************************************)
directGUI(params) ==
  IF Len(params) > 0
  THEN << Press(KEY_LEFT_GUI), Delay(200) >> \o
       (IF Len(params) = 1
        THEN << Write(params[1]) >>
        ELSE IF equalsIgnoreCase(params, S.r) THEN << Write(114) >> ELSE pressKey(params))
       \o << Delay(200), ReleaseAll >>
  ELSE << Press(KEY_LEFT_GUI), Delay(200), ReleaseAll >>

\* the letters CTRL looks for among its named keys
directCtrlNamedKey(params) ==
  IF equalsIgnoreCase(params, S.a) THEN << Press(97) >>
  ELSE IF equalsIgnoreCase(params, S.c) THEN << Press(99) >>
  ELSE IF equalsIgnoreCase(params, S.v) THEN << Press(118) >>
  ELSE IF equalsIgnoreCase(params, S.x) THEN << Press(120) >>
  ELSE IF equalsIgnoreCase(params, S.z) THEN << Press(122) >>
  ELSE IF equalsIgnoreCase(params, S.y) THEN << Press(121) >>
  ELSE IF equalsIgnoreCase(params, S.s) THEN << Press(115) >>
  ELSE pressKey(params)

directCTRL(params) ==
  IF Len(params) > 0
  THEN << Press(KEY_LEFT_CTRL), Delay(200) >> \o
       (IF Len(params) = 1
        THEN << Press(params[1]), Delay(200), ReleaseAll >>
        ELSE directCtrlNamedKey(params) \o << Delay(200), ReleaseAll >>)
  ELSE << Press(KEY_LEFT_CTRL), Delay(200), ReleaseAll >>

directALT(params) ==
  IF Len(params) > 0
  THEN << Press(KEY_LEFT_ALT), Delay(200) >> \o
       (IF Len(params) = 1
        THEN << Press(params[1]), Delay(200), ReleaseAll >>
        ELSE pressKey(params) \o << Delay(200), ReleaseAll >>)
  ELSE << Press(KEY_LEFT_ALT), Delay(200), ReleaseAll >>

directSHIFT(params) ==
  IF Len(params) > 0
  THEN IF Len(params) = 1
       THEN LET key == params[1]
            IN  IF key >= 97 /\ key <= 122
                THEN << Write(key - 32) >>
                ELSE << Press(KEY_LEFT_SHIFT), Delay(250), Press(key), Delay(250),
                        ReleaseAll, Delay(50) >>
       ELSE << Press(KEY_LEFT_SHIFT), Delay(250) >> \o shiftNamedKey(params) \o
            << Delay(250), ReleaseAll, Delay(50) >>
  ELSE << Press(KEY_LEFT_SHIFT), Delay(250), ReleaseAll, Delay(50) >>

processDuckyLine_DirectASCII(line0, cfg, st) ==
  LET line == trim(line0)
      same(ev) == [events |-> ev \o << Delay(st.defaultDelay) >>,
                   defaultDelay |-> st.defaultDelay,
                   repeatScriptMode |-> st.repeatScriptMode,
                   repeatScriptCount |-> st.repeatScriptCount]
      led == << Delay(25) >>
  IN  IF startsWith(line, S.REM)
      THEN [events |-> led,
            defaultDelay |-> st.defaultDelay,
            repeatScriptMode |-> st.repeatScriptMode,
            repeatScriptCount |-> st.repeatScriptCount]
      ELSE
        LET command == duckySplit(line).command
            params == duckySplit(line).params
        IN  IF command = S.DEFAULT_DELAY \/ command = S.DEFAULTDELAY
            THEN [events |-> led \o << Delay(toInt(params)) >>,
                  defaultDelay |-> toInt(params),
                  repeatScriptMode |-> st.repeatScriptMode,
                  repeatScriptCount |-> st.repeatScriptCount]
            ELSE IF command = S.DELAY
            THEN same(led \o << Delay(toInt(params)) >>)
            ELSE IF command = S.STRING
            THEN same(led \o typeDirectASCII(params))
            ELSE IF command = S.STRINGLN
            THEN same(led \o typeDirectASCII(params)
                        \o << Delay(50), Write(KEY_RETURN), Delay(50) >>)
            ELSE IF command = S.ENTER
            THEN same(led \o << Press(KEY_RETURN), Delay(200), ReleaseAll, Delay(50) >>)
            ELSE IF command = S.GUI \/ command = S.WINDOWS
            THEN same(led \o directGUI(params))
            ELSE IF command = S.CTRL \/ command = S.CONTROL
            THEN same(led \o directCTRL(params))
            ELSE IF command = S.ALT
            THEN same(led \o directALT(params))
            ELSE IF command = S.SHIFT
            THEN same(led \o directSHIFT(params))
            ELSE IF command = S.TAB
            THEN same(led \o << Press(KEY_TAB), Delay(200), ReleaseAll, Delay(50) >>)
            ELSE IF command = S.BACKSPACE
            THEN same(led \o << Press(KEY_BACKSPACE), Delay(200), ReleaseAll, Delay(50) >>)
            ELSE same(led)

(***************************************************************************)
(* readConfigFile: config.txt, a file of 'KEY = VALUE' lines               *)
(***************************************************************************)
\* value with the '/' a script file path begins with
withSlash(value) == IF startsWith(value, K.SLASH) THEN value ELSE K.SLASH \o value

\* isFalseValue knowing false alone: C24 does not hold of it
isFalseValue_onlyFalse(value) == equalsIgnoreCase(value, K.vfalse)

\* the value reads as false: false, 0 or no
isFalseValue(value) ==
  equalsIgnoreCase(value, K.vfalse) \/ equalsIgnoreCase(value, K.v0)
    \/ equalsIgnoreCase(value, K.vno)

\* the value reads as true: true, 1 or yes
isTrueValue(value) ==
  equalsIgnoreCase(value, K.vtrue) \/ equalsIgnoreCase(value, K.v1)
    \/ equalsIgnoreCase(value, K.vyes)

\* the body of the while loop of readConfigFile: the config struct after
\* one line of the file
readConfigLine(cfg, line0) ==
  LET line == trim(line0)
      separatorPos == indexOf(line, 61, 0)
      key == trim(substring(line, 0, separatorPos))
      value == trim(substringFrom(line, separatorPos + 1))
      is(name) == equalsIgnoreCase(key, name)
  IN  IF Len(line) = 0 \/ startsWith(line, S.HASH) \/ startsWith(line, S.SLASHES)
      THEN cfg
      ELSE IF separatorPos = -1
      THEN cfg
      ELSE IF is(K.SCRIPT_MODE)
      THEN [cfg EXCEPT !.scriptMode = toInt(value) % 256]
      ELSE IF is(K.DUCKY_SCRIPT_FILE)
      THEN [cfg EXCEPT !.duckyScriptFile = withSlash(value)]
      ELSE IF is(K.CUSTOM_SCRIPT_FILE)
      THEN [cfg EXCEPT !.customScriptFile = withSlash(value)]
      ELSE IF is(K.TYPING_DELAY)
      THEN [cfg EXCEPT !.typingDelay = toInt(value)]
      ELSE IF is(K.USE_LAYOUT_INDEPENDENT)
      THEN [cfg EXCEPT !.useLayoutIndependent = isTrueValue(value)]
      ELSE IF is(K.AUTORUN)
      THEN [cfg EXCEPT !.autorunOnBoot = ~isFalseValue(value)]
      ELSE IF is(K.INITIAL_DELAY)
      THEN [cfg EXCEPT !.initialDelay = toInt(value)]
      ELSE IF is(K.REPEAT_COUNT)
      THEN [cfg EXCEPT !.repeatCount = toInt(value)]
      ELSE IF is(K.DEBUG_OUTPUT)
      THEN [cfg EXCEPT !.debugOutput = ~isFalseValue(value)]
      ELSE cfg

RECURSIVE readConfigLines(_, _)
\* while (configFile.available()): the lines of the file in turn
readConfigLines(cfg, lines) ==
  IF lines = << >> THEN cfg
  ELSE readConfigLines(readConfigLine(cfg, Head(lines)), Tail(lines))

\* readConfigFile reading the lines of a file that is missing or does not
\* open: C25 does not hold of it
readConfigFile_ignoresOpen(cfg, file) == readConfigLines(cfg, file.lines)

\* readConfigFile: a config.txt that is missing or cannot be opened is not
\* read
readConfigFile(cfg, file) ==
  IF ~file.exists \/ ~file.opens THEN cfg ELSE readConfigLines(cfg, file.lines)

(***************************************************************************)
(* Inputs: the lines a script may hold.                                    *)
(***************************************************************************)
L ==
  [ rem |->   (* REM note *)
      <<82, 69, 77, 32, 110, 111, 116, 101>>,
    hash |->   (* # note *)
      <<35, 32, 110, 111, 116, 101>>,
    blank |->   (*  *)
      <<>>,
    string_Hi |->   (* STRING Hi! *)
      <<83, 84, 82, 73, 78, 71, 32, 72, 105, 33>>,
    string_unmapped |->   (* STRING a<233><9>b *)
      <<83, 84, 82, 73, 78, 71, 32, 97, 233, 9, 98>>,
    string_lower |->   (* string hi *)
      <<115, 116, 114, 105, 110, 103, 32, 104, 105>>,
    stringln_ok |->   (* STRINGLN ok *)
      <<83, 84, 82, 73, 78, 71, 76, 78, 32, 111, 107>>,
    string_plus |->   (* STRING a+b *)
      <<83, 84, 82, 73, 78, 71, 32, 97, 43, 98>>,
    type_AB |->   (* TYPE:AB *)
      <<84, 89, 80, 69, 58, 65, 66>>,
    type_Hi |->   (* TYPE:Hi! *)
      <<84, 89, 80, 69, 58, 72, 105, 33>>,
    type_unmapped |->   (* TYPE:x<7>y *)
      <<84, 89, 80, 69, 58, 120, 7, 121>>,
    typeline |->   (* TYPELINE:cmd *)
      <<84, 89, 80, 69, 76, 73, 78, 69, 58, 99, 109, 100>>,
    typesoft |->   (* TYPESOFT:ab *)
      <<84, 89, 80, 69, 83, 79, 70, 84, 58, 97, 98>>,
    gui_r |->   (* GUI r *)
      <<71, 85, 73, 32, 114>>,
    gui_R |->   (* GUI R *)
      <<71, 85, 73, 32, 82>>,
    gui_space |->   (* GUI SPACE *)
      <<71, 85, 73, 32, 83, 80, 65, 67, 69>>,
    gui |->   (* GUI *)
      <<71, 85, 73>>,
    windows_d |->   (* WINDOWS d *)
      <<87, 73, 78, 68, 79, 87, 83, 32, 100>>,
    ctrl_c |->   (* CTRL c *)
      <<67, 84, 82, 76, 32, 99>>,
    ctrl_A |->   (* CTRL A *)
      <<67, 84, 82, 76, 32, 65>>,
    ctrl_space |->   (* CTRL SPACE *)
      <<67, 84, 82, 76, 32, 83, 80, 65, 67, 69>>,
    ctrl |->   (* CTRL *)
      <<67, 84, 82, 76>>,
    ctrl_shift_esc |->   (* CTRL SHIFT ESC *)
      <<67, 84, 82, 76, 32, 83, 72, 73, 70, 84, 32, 69, 83, 67>>,
    control_esc |->   (* CONTROL ESC *)
      <<67, 79, 78, 84, 82, 79, 76, 32, 69, 83, 67>>,
    alt_f4 |->   (* ALT F4 *)
      <<65, 76, 84, 32, 70, 52>>,
    alt_x |->   (* ALT x *)
      <<65, 76, 84, 32, 120>>,
    alt |->   (* ALT *)
      <<65, 76, 84>>,
    shift_1 |->   (* SHIFT 1 *)
      <<83, 72, 73, 70, 84, 32, 49>>,
    shift_a |->   (* SHIFT a *)
      <<83, 72, 73, 70, 84, 32, 97>>,
    shift_end |->   (* SHIFT END *)
      <<83, 72, 73, 70, 84, 32, 69, 78, 68>>,
    shift_tab |->   (* SHIFT TAB *)
      <<83, 72, 73, 70, 84, 32, 84, 65, 66>>,
    shift_semicolon |->   (* SHIFT ; *)
      <<83, 72, 73, 70, 84, 32, 59>>,
    shift |->   (* SHIFT *)
      <<83, 72, 73, 70, 84>>,
    enter |->   (* ENTER *)
      <<69, 78, 84, 69, 82>>,
    space |->   (* SPACE *)
      <<83, 80, 65, 67, 69>>,
    delete |->   (* DELETE *)
      <<68, 69, 76, 69, 84, 69>>,
    tab |->   (* TAB *)
      <<84, 65, 66>>,
    backspace |->   (* BACKSPACE *)
      <<66, 65, 67, 75, 83, 80, 65, 67, 69>>,
    home |->   (* HOME *)
      <<72, 79, 77, 69>>,
    f1 |->   (* F1 *)
      <<70, 49>>,
    f12 |->   (* F12 *)
      <<70, 49, 50>>,
    up |->   (* UP *)
      <<85, 80>>,
    leftarrow |->   (* LEFTARROW *)
      <<76, 69, 70, 84, 65, 82, 82, 79, 87>>,
    pause |->   (* PAUSE *)
      <<80, 65, 85, 83, 69>>,
    menu |->   (* MENU *)
      <<77, 69, 78, 85>>,
    esc |->   (* ESC *)
      <<69, 83, 67>>,
    printscreen |->   (* PRINTSCREEN *)
      <<80, 82, 73, 78, 84, 83, 67, 82, 69, 69, 78>>,
    ctrl_alt_delete |->   (* CTRL+ALT+DELETE *)
      <<67, 84, 82, 76, 43, 65, 76, 84, 43, 68, 69, 76, 69, 84, 69>>,
    alt_ctrl_delete |->   (* ALT+CTRL+DELETE *)
      <<65, 76, 84, 43, 67, 84, 82, 76, 43, 68, 69, 76, 69, 84, 69>>,
    ctrl_plus_c |->   (* CTRL+c *)
      <<67, 84, 82, 76, 43, 99>>,
    ctrl_plus_A |->   (* CTRL+A *)
      <<67, 84, 82, 76, 43, 65>>,
    ctrl_a_delete |->   (* CTRL+a+DELETE *)
      <<67, 84, 82, 76, 43, 97, 43, 68, 69, 76, 69, 84, 69>>,
    ctrl_shift_plus_esc |->   (* CTRL+SHIFT+ESC *)
      <<67, 84, 82, 76, 43, 83, 72, 73, 70, 84, 43, 69, 83, 67>>,
    gui_plus_space |->   (* GUI+SPACE *)
      <<71, 85, 73, 43, 83, 80, 65, 67, 69>>,
    six_keys |->   (* CTRL+SHIFT+ALT+GUI+F1+F2 *)
      <<67, 84, 82, 76, 43, 83, 72, 73, 70, 84, 43, 65, 76, 84, 43, 71, 85, 73, 43, 70, 49, 43, 70, 50>>,
    five_keys |->   (* CTRL+SHIFT+ALT+GUI+F1 *)
      <<67, 84, 82, 76, 43, 83, 72, 73, 70, 84, 43, 65, 76, 84, 43, 71, 85, 73, 43, 70, 49>>,
    foo_plus |->   (* FOO a+b *)
      <<70, 79, 79, 32, 97, 43, 98>>,
    foo |->   (* FOO *)
      <<70, 79, 79>>,
    repeat_3 |->   (* REPEAT 3 *)
      <<82, 69, 80, 69, 65, 84, 32, 51>>,
    repeat_2 |->   (* REPEAT 2 *)
      <<82, 69, 80, 69, 65, 84, 32, 50>>,
    repeat_1 |->   (* REPEAT 1 *)
      <<82, 69, 80, 69, 65, 84, 32, 49>>,
    repeat_0 |->   (* REPEAT 0 *)
      <<82, 69, 80, 69, 65, 84, 32, 48>>,
    repeat |->   (* REPEAT *)
      <<82, 69, 80, 69, 65, 84>>,
    repeat_neg |->   (* REPEAT -2 *)
      <<82, 69, 80, 69, 65, 84, 32, 45, 50>>,
    repeat_x |->   (* REPEAT x *)
      <<82, 69, 80, 69, 65, 84, 32, 120>>,
    defaultdelay_100 |->   (* DEFAULTDELAY 100 *)
      <<68, 69, 70, 65, 85, 76, 84, 68, 69, 76, 65, 89, 32, 49, 48, 48>>,
    default_delay_7 |->   (* DEFAULT_DELAY 7 *)
      <<68, 69, 70, 65, 85, 76, 84, 95, 68, 69, 76, 65, 89, 32, 55>>,
    defaultdelay |->   (* DEFAULTDELAY *)
      <<68, 69, 70, 65, 85, 76, 84, 68, 69, 76, 65, 89>>,
    delay_500 |->   (* DELAY 500 *)
      <<68, 69, 76, 65, 89, 32, 53, 48, 48>>,
    delay |->   (* DELAY *)
      <<68, 69, 76, 65, 89>>,
    delay_colon |->   (* DELAY:500 *)
      <<68, 69, 76, 65, 89, 58, 53, 48, 48>>,
    run |->   (* RUN *)
      <<82, 85, 78>>,
    admin |->   (* ADMIN *)
      <<65, 68, 77, 73, 78>>,
    key_return |->   (* KEY:RETURN *)
      <<75, 69, 89, 58, 82, 69, 84, 85, 82, 78>>,
    key_tab |->   (* key:tab *)
      <<107, 101, 121, 58, 116, 97, 98>>,
    key_f1 |->   (* KEY:F1 *)
      <<75, 69, 89, 58, 70, 49>>,
    killapp |->   (* KILLAPP *)
      <<75, 73, 76, 76, 65, 80, 80>>,
    minimize |->   (* MINIMIZE *)
      <<77, 73, 78, 73, 77, 73, 90, 69>>,
    killall |->   (* KILLALL *)
      <<75, 73, 76, 76, 65, 76, 76>>,
    opennotpad |->   (* OPENNOTPAD *)
      <<79, 80, 69, 78, 78, 79, 84, 80, 65, 68>>,
    openpowershell |->   (* OPENPOWERSHELL *)
      <<79, 80, 69, 78, 80, 79, 87, 69, 82, 83, 72, 69, 76, 76>>,
    openpowershelladmin |->   (* OPENPOWERSHELLADMIN *)
      <<79, 80, 69, 78, 80, 79, 87, 69, 82, 83, 72, 69, 76, 76, 65, 68, 77, 73, 78>>,
    opencmd |->   (* OPENCMD *)
      <<79, 80, 69, 78, 67, 77, 68>>,
    opencmdadmin |->   (* OPENCMDADMIN *)
      <<79, 80, 69, 78, 67, 77, 68, 65, 68, 77, 73, 78>>,
    string_empty |->   (* STRING *)
      <<83, 84, 82, 73, 78, 71>>,
    stringln_empty |->   (* STRINGLN *)
      <<83, 84, 82, 73, 78, 71, 76, 78>>,
    string_hi |->   (* STRING hi *)
      <<83, 84, 82, 73, 78, 71, 32, 104, 105>>,
    string_spaces |->   (* STRING  a b  *)
      <<83, 84, 82, 73, 78, 71, 32, 32, 97, 32, 98, 32>>,
    string_tab |->   (* STRING<9>hi *)
      <<83, 84, 82, 73, 78, 71, 9, 104, 105>>,
    enter_mixed |->   (* Enter *)
      <<69, 110, 116, 101, 114>>,
    delay_lower |->   (* delay 500 *)
      <<100, 101, 108, 97, 121, 32, 53, 48, 48>>,
    defaultdelay_lower |->   (* defaultdelay 100 *)
      <<100, 101, 102, 97, 117, 108, 116, 100, 101, 108, 97, 121, 32, 49, 48, 48>>,
    gui_lower |->   (* gui r *)
      <<103, 117, 105, 32, 114>>,
    type_lower |->   (* type:hi *)
      <<116, 121, 112, 101, 58, 104, 105>>,
    type_hi |->   (* TYPE:hi *)
      <<84, 89, 80, 69, 58, 104, 105>>,
    type_mixed |->   (* Type:Hi! *)
      <<84, 121, 112, 101, 58, 72, 105, 33>>,
    key_tab_upper |->   (* KEY:TAB *)
      <<75, 69, 89, 58, 84, 65, 66>>,
    opencmd_mixed |->   (* OpenCmd *)
      <<79, 112, 101, 110, 67, 109, 100>>,
    run_lower |->   (* run *)
      <<114, 117, 110>>,
    enter_tab_x |->   (* ENTER<9> x *)
      <<69, 78, 84, 69, 82, 9, 32, 120>>,
    rem_only |->   (* REM *)
      <<82, 69, 77>>,
    remark |->   (* REMARK x *)
      <<82, 69, 77, 65, 82, 75, 32, 120>>,
    rem_lower |->   (* rem note *)
      <<114, 101, 109, 32, 110, 111, 116, 101>> ]
\* the lines a config.txt may hold
CL ==
  [ blank |->   (*  *)
      <<>>,
    hash |->   (* # AUTORUN = false *)
      <<35, 32, 65, 85, 84, 79, 82, 85, 78, 32, 61, 32, 102, 97, 108, 115, 101>>,
    slashes |->   (* // REPEAT_COUNT = 2 *)
      <<47, 47, 32, 82, 69, 80, 69, 65, 84, 95, 67, 79, 85, 78, 84, 32, 61, 32, 50>>,
    no_equals |->   (* REPEAT_COUNT 2 *)
      <<82, 69, 80, 69, 65, 84, 95, 67, 79, 85, 78, 84, 32, 50>>,
    unknown_key |->   (* TYPING_DELAY_MAX = 99 *)
      <<84, 89, 80, 73, 78, 71, 95, 68, 69, 76, 65, 89, 95, 77, 65, 88, 32, 61, 32, 57, 57>>,
    empty_key |->   (* = 1 *)
      <<61, 32, 49>>,
    script_mode_0 |->   (* SCRIPT_MODE = 0 *)
      <<83, 67, 82, 73, 80, 84, 95, 77, 79, 68, 69, 32, 61, 32, 48>>,
    script_mode_257 |->   (* script_mode=257 *)
      <<115, 99, 114, 105, 112, 116, 95, 109, 111, 100, 101, 61, 50, 53, 55>>,
    ducky_file |->   (* DUCKY_SCRIPT_FILE = duck.txt *)
      <<68, 85, 67, 75, 89, 95, 83, 67, 82, 73, 80, 84, 95, 70, 73, 76, 69, 32, 61, 32, 100, 117, 99, 107, 46, 116, 120, 116>>,
    custom_file |->   (* CUSTOM_SCRIPT_FILE = /my.txt *)
      <<67, 85, 83, 84, 79, 77, 95, 83, 67, 82, 73, 80, 84, 95, 70, 73, 76, 69, 32, 61, 32, 47, 109, 121, 46, 116, 120, 116>>,
    typing_delay |->   (* TYPING_DELAY = 150 *)
      <<84, 89, 80, 73, 78, 71, 95, 68, 69, 76, 65, 89, 32, 61, 32, 49, 53, 48>>,
    layout_no |->   (* USE_LAYOUT_INDEPENDENT = no *)
      <<85, 83, 69, 95, 76, 65, 89, 79, 85, 84, 95, 73, 78, 68, 69, 80, 69, 78, 68, 69, 78, 84, 32, 61, 32, 110, 111>>,
    layout_yes |->   (* USE_LAYOUT_INDEPENDENT = YES *)
      <<85, 83, 69, 95, 76, 65, 89, 79, 85, 84, 95, 73, 78, 68, 69, 80, 69, 78, 68, 69, 78, 84, 32, 61, 32, 89, 69, 83>>,
    autorun_false |->   (* AUTORUN = false *)
      <<65, 85, 84, 79, 82, 85, 78, 32, 61, 32, 102, 97, 108, 115, 101>>,
    autorun_No |->   (* Autorun = No *)
      <<65, 117, 116, 111, 114, 117, 110, 32, 61, 32, 78, 111>>,
    autorun_0 |->   (* AUTORUN=0 *)
      <<65, 85, 84, 79, 82, 85, 78, 61, 48>>,
    autorun_true |->   (* AUTORUN = true *)
      <<65, 85, 84, 79, 82, 85, 78, 32, 61, 32, 116, 114, 117, 101>>,
    autorun_off |->   (* AUTORUN = off *)
      <<65, 85, 84, 79, 82, 85, 78, 32, 61, 32, 111, 102, 102>>,
    autorun_empty |->   (* AUTORUN = *)
      <<65, 85, 84, 79, 82, 85, 78, 32, 61>>,
    initial_delay |->   (* INITIAL_DELAY = 0 *)
      <<73, 78, 73, 84, 73, 65, 76, 95, 68, 69, 76, 65, 89, 32, 61, 32, 48>>,
    repeat_2 |->   (* REPEAT_COUNT = 2 *)
      <<82, 69, 80, 69, 65, 84, 95, 67, 79, 85, 78, 84, 32, 61, 32, 50>>,
    repeat_x |->   (* REPEAT_COUNT = x *)
      <<82, 69, 80, 69, 65, 84, 95, 67, 79, 85, 78, 84, 32, 61, 32, 120>>,
    debug_off |->   (* DEBUG_OUTPUT = 0 *)
      <<68, 69, 66, 85, 71, 95, 79, 85, 84, 80, 85, 84, 32, 61, 32, 48>> ]

\* every line the handlers are exercised on
Lines == { L[f] : f \in DOMAIN L }

\* the lines the scripts on the card are made of
ScriptLines ==
  { L.rem, L.blank, L.string_Hi, L.delete, L.repeat_3, L.repeat_0,
    L.ctrl_alt_delete, L.type_AB, L.foo }

\* the scripts on the card: at most MaxScriptLen lines
Scripts == UNION { [1..n -> ScriptLines] : n \in 0..MaxScriptLen }

\* the values config.txt can give the options the interpreter reads
ScriptModes == {0, 1, 2}
RepeatCounts == {0, 1, 2}
TypingDelays == {25, 150}

\* the config structs config.txt can leave: the file names, the initial delay
\* and the debug output are the ones of the defaults
Configs ==
  [scriptMode : ScriptModes, duckyScriptFile : { K.payload_txt },
   customScriptFile : { K.instructions_txt }, typingDelay : TypingDelays,
   useLayoutIndependent : BOOLEAN, autorunOnBoot : BOOLEAN, initialDelay : { 1000 },
   repeatCount : RepeatCounts, debugOutput : { TRUE }]

\* the defaults of the config struct
defaultConfig ==
  [scriptMode |-> 1, duckyScriptFile |-> K.payload_txt,
   customScriptFile |-> K.instructions_txt, typingDelay |-> 25,
   useLayoutIndependent |-> TRUE, autorunOnBoot |-> TRUE, initialDelay |-> 1000,
   repeatCount |-> 0, debugOutput |-> TRUE]

RECURSIVE NumText(_)
\* the decimal digits of n, as config.txt holds a number
NumText(n) == IF n < 10 THEN << 48 + n >> ELSE NumText(n \div 10) \o << 48 + (n % 10) >>

\* true or false, as config.txt holds a switch
BoolText(b) == IF b THEN K.vtrue ELSE K.vfalse

\* a config.txt that sets the options of c the interpreter reads, one
\* KEY = value line each
ConfigFileOf(c) ==
  [exists |-> TRUE, opens |-> TRUE,
   lines |-> << K.SCRIPT_MODE \o K.EQ \o NumText(c.scriptMode),
                K.TYPING_DELAY \o K.EQ \o NumText(c.typingDelay),
                K.USE_LAYOUT_INDEPENDENT \o K.EQ \o BoolText(c.useLayoutIndependent),
                K.AUTORUN \o K.EQ \o BoolText(c.autorunOnBoot),
                K.REPEAT_COUNT \o K.EQ \o NumText(c.repeatCount) >>]

\* the config.txt files of the boot sequence
ConfigFiles == { ConfigFileOf(c) : c \in Configs }

\* no config.txt on the card
noConfigFile == [exists |-> FALSE, opens |-> FALSE, lines |-> << >>]

\* an SD card that mounts at the first SD.begin
sdCardOk == [failures |-> 0, beginTime |-> 0]

(***************************************************************************)
(* State                                                                   *)
(***************************************************************************)
VARIABLES
  sdCard,              \* the SD.begin calls that fail before one succeeds, and the time one takes
  configFile,          \* config.txt on the card: whether it exists, opens, and its lines
  cardFiles,           \* the names of the script files on the card
  scriptFile,          \* String scriptFile of setup()
  script,              \* the lines of the script file on the card
  config,              \* the config struct
  defaultDelay,        \* unsigned int defaultDelay
  repeatScriptMode,    \* bool repeatScriptMode
  repeatScriptCount,   \* int repeatScriptCount
  currentRepeat,       \* int currentRepeat
  pc,                  \* where setup() is
  lineIdx,             \* the next line of the script file to read
  handler,             \* the function that handled the last line
  lastLine,            \* the last line handled
  events,              \* the events emitted while handling it
  down,                \* the keys held down on the keyboard sink
  fileOpen,            \* the outcome of the SD.open calls of the last pass started
  lineCount,           \* int lineCount of setup()
  executedCount,       \* int executedCount of setup()
  skippedCount,        \* int skippedCount of setup()
  summary,             \* the last execution summary printed
  errorFlashes         \* the flashLED calls made on the failure paths, in order

vars ==
  << sdCard, configFile, cardFiles, scriptFile, script, config, defaultDelay, repeatScriptMode, repeatScriptCount,
     currentRepeat, pc, lineIdx, handler, lastLine, events, down,
     fileOpen, lineCount, executedCount, skippedCount, summary, errorFlashes >>

\* the card: what setup() reads and never writes
card == << sdCard, configFile, cardFiles >>

\* an error has been signalled on the LEDs
errorIndicator == errorFlashes # << >>

\* flashLED(led, times, duration) as the failure paths call it
flash(led, times, duration) == [led |-> led, times |-> times, duration |-> duration]

\* the locals of setup() a line does not touch
passVars == << scriptFile, fileOpen, summary, errorFlashes >>

\* the locals of setup() that count lines
countVars == << lineCount, executedCount, skippedCount >>

\* the session variables a handler reads and writes
session ==
  [defaultDelay |-> defaultDelay, repeatScriptMode |-> repeatScriptMode,
   repeatScriptCount |-> repeatScriptCount]

RECURSIVE keysDown(_, _)
\* the keys held down after the events ev, when held were down before:
\* press adds its key, releaseAll releases every key, write and delay leave
\* the held keys as they were
keysDown(held, ev) ==
  IF ev = << >> THEN held
  ELSE keysDown(
         CASE Head(ev).op = "press" -> held \cup { Head(ev).k }
           [] Head(ev).op = "releaseAll" -> {}
           [] OTHER -> held,
         Tail(ev))

\* the state after a handler has returned r for line
Handled(name, line, r) ==
  /\ handler' = name
  /\ lastLine' = line
  /\ events' = r.events
  /\ down' = keysDown(down, r.events)
  /\ defaultDelay' = r.defaultDelay
  /\ repeatScriptMode' = r.repeatScriptMode
  /\ repeatScriptCount' = r.repeatScriptCount

\* the state after a line was skipped without a handler
Skipped(line) ==
  /\ handler' = "skipped"
  /\ lastLine' = line
  /\ events' = << >>
  /\ UNCHANGED << down, defaultDelay, repeatScriptMode, repeatScriptCount >>

\* lineCount++ with executedCount++ (e = 1) or skippedCount++ (s = 1)
Counted(e, s) ==
  /\ lineCount' = lineCount + 1
  /\ executedCount' = executedCount + e
  /\ skippedCount' = skippedCount + s

(***************************************************************************)
(* setup(): the boot sequence from reading the configuration on            *)
(***************************************************************************)
Init ==
  /\ sdCard = sdCardOk
  /\ configFile \in ConfigFiles
  /\ \/ /\ cardFiles = { K.payload_txt }
        /\ script \in Scripts
     \/ /\ cardFiles = {}
        /\ script = << >>
  /\ scriptFile = << >>
  /\ config = defaultConfig
  /\ defaultDelay = 0
  /\ repeatScriptMode = FALSE
  /\ repeatScriptCount = 0
  /\ currentRepeat = 0
  /\ pc = "power"
  /\ lineIdx = 0
  /\ handler = "none"
  /\ lastLine = << >>
  /\ events = << >>
  /\ down = {}
  /\ fileOpen = "no"
  /\ lineCount = 0
  /\ executedCount = 0
  /\ skippedCount = 0
  /\ summary = << >>
  /\ errorFlashes = << >>

\* the standard execution in place of direct ASCII mode: C8 does not hold of it
useDirectASCII_off == FALSE

\* bool useDirectASCII = true; // Force direct ASCII mode on
useDirectASCII == TRUE

\* millis() - sdInitStartTime after three failed SD.begin calls: the two
\* delays between the calls, the two retry flashes, the calls themselves
sdInitDuration(sd) == 500 + 1000 + 2 * (2 * (100 + 100)) + 3 * sd.beginTime

\* int errorType, guessed from the time the failure took
errorType(sd) ==
  IF sdInitDuration(sd) < 100 THEN 1 ELSE IF sdInitDuration(sd) < 500 THEN 3 ELSE 2

\* the flashLED calls of showSDCardError(errorPattern)
showSDCardError(errorPattern) ==
  CASE errorPattern = 1 -> [i \in 1..3 |-> flash("LED_RX", 3, 200)]
    [] errorPattern = 2 -> [i \in 1..3 |-> flash("LED_TX", 3, 200)]
    [] errorPattern = 3 -> [i \in 1..6 |-> IF i % 2 = 1 THEN flash("LED_USER", 3, 200)
                                                        ELSE flash("LED_RX", 3, 200)]
    [] errorPattern = 4 -> [i \in 1..9 |-> IF i % 3 = 1 THEN flash("LED_USER", 1, 200)
                                           ELSE IF i % 3 = 2 THEN flash("LED_RX", 1, 200)
                                           ELSE flash("LED_TX", 1, 200)]
    [] OTHER -> << >>

\* the flashLED calls of the mount loop and of attemptSDCardRecovery for a
\* card whose first n SD.begin calls fail: a retry flash before the second
\* and the third call, the recovery flash after the third
mountFlashes(n) ==
  (IF n >= 1 THEN << flash("LED_TX", 2, 100) >> ELSE << >>)
  \o (IF n >= 2 THEN << flash("LED_TX", 2, 100) >> ELSE << >>)
  \o (IF n >= 3 THEN << flash("LED_USER", 2, 100) >> ELSE << >>)

\* a mount that shows the error and goes on with setup() all the same: C40
\* does not hold of it
InitSD_goesOn ==
  /\ pc = "power"
  /\ errorFlashes' = IF sdCard.failures >= 5
                     THEN mountFlashes(sdCard.failures) \o showSDCardError(errorType(sdCard))
                     ELSE mountFlashes(sdCard.failures)
  /\ pc' = "boot"
  /\ UNCHANGED << card, scriptFile, script, config, defaultDelay, repeatScriptMode,
                  repeatScriptCount, currentRepeat, lineIdx, handler, lastLine,
                  events, down, fileOpen, summary, countVars >>

\* the mount of the SD card: three SD.begin calls, then the two of
\* attemptSDCardRecovery; when all five fail showSDCardError is shown, again
\* and again, and setup() never goes on
InitSD ==
  /\ pc = "power"
  /\ IF sdCard.failures >= 5
     THEN /\ errorFlashes' = mountFlashes(sdCard.failures) \o showSDCardError(errorType(sdCard))
          /\ pc' = "halted"
     ELSE /\ errorFlashes' = mountFlashes(sdCard.failures)
          /\ pc' = "boot"
  /\ UNCHANGED << card, scriptFile, script, config, defaultDelay, repeatScriptMode,
                  repeatScriptCount, currentRepeat, lineIdx, handler, lastLine,
                  events, down, fileOpen, summary, countVars >>

\* readConfigFile, the repeat mode from the configuration, the autorun gate
SetupConfig ==
  /\ pc = "boot"
  /\ config' = readConfigFile(config, configFile)
  /\ IF config'.repeatCount > 0
     THEN /\ repeatScriptMode' = TRUE
          /\ repeatScriptCount' = config'.repeatCount
     ELSE UNCHANGED << repeatScriptMode, repeatScriptCount >>
  /\ pc' = IF config'.autorunOnBoot THEN "select" ELSE "idle"
  /\ UNCHANGED << card, script, defaultDelay, currentRepeat, lineIdx,
                  handler, lastLine, events, down, passVars, countVars >>

\* the script file setup() settles on, given the files on the card: the
\* primary file of the script mode, else the other one, else none (<< >>);
\* a test file on the card replaces the one found
chosenScriptFile(cfg, files) ==
  LET primary == IF cfg.scriptMode = 1 THEN cfg.duckyScriptFile ELSE cfg.customScriptFile
      fallback == IF cfg.scriptMode = 1 THEN cfg.customScriptFile ELSE cfg.duckyScriptFile
  IN  IF primary \notin files /\ fallback \notin files THEN << >>
      ELSE IF K.test_layout_txt \in files THEN K.test_layout_txt
      ELSE IF K.key_combo_test_txt \in files THEN K.key_combo_test_txt
      ELSE IF K.shift_key_test_txt \in files THEN K.shift_key_test_txt
      ELSE IF primary \in files THEN primary
      ELSE fallback

\* the choice of the script file: with neither the primary nor the fallback
\* file on the card the error is signalled and setup() stops for good
SelectScript ==
  /\ pc = "select"
  /\ LET chosen == chosenScriptFile(config, cardFiles)
     IN  IF chosen = << >>
         THEN /\ errorFlashes' = Append(errorFlashes, flash("LED_TX", 5, 100))
              /\ pc' = "halted"
              /\ UNCHANGED scriptFile
         ELSE /\ scriptFile' = chosen
              /\ pc' = "open"
              /\ UNCHANGED errorFlashes
  /\ UNCHANGED << card, script, config, defaultDelay, repeatScriptMode,
                  repeatScriptCount, currentRepeat, lineIdx, handler, lastLine,
                  events, down, fileOpen, summary, countVars >>

\* OpenScript zeroing currentRepeat with the line counters at the head of
\* every pass: C13 does not hold of it
OpenScript_resetRepeat(direct) ==
  /\ pc = "open"
  /\ \E opened \in BOOLEAN, openedDirect \in BOOLEAN :
       IF ~opened
       THEN /\ fileOpen' = "setupFailed"
            /\ errorFlashes' = Append(errorFlashes, flash("LED_TX", 3, 200))
            /\ pc' = "idle"
            /\ UNCHANGED << lineIdx, countVars, currentRepeat >>
       ELSE /\ fileOpen' = IF direct /\ ~openedDirect THEN "directFailed" ELSE "yes"
            /\ pc' = "exec"
            /\ lineIdx' = 1
            /\ lineCount' = 0
            /\ executedCount' = 0
            /\ skippedCount' = 0
            /\ currentRepeat' = 0
            /\ UNCHANGED errorFlashes
  /\ UNCHANGED << card, script, config, defaultDelay, repeatScriptMode,
                  repeatScriptCount, handler, lastLine, events, down, summary,
                  scriptFile >>

\* the head of the do/while body: SD.open of setup(), the counters zeroed,
\* and when direct the SD.open of executeScript_DirectASCII; a failed open of
\* setup() signals the error and breaks out of the loop, a failed open of
\* executeScript_DirectASCII returns to setup() without a word
OpenScript(direct) ==
  /\ pc = "open"
  /\ \E opened \in BOOLEAN, openedDirect \in BOOLEAN :
       IF ~opened
       THEN /\ fileOpen' = "setupFailed"
            /\ errorFlashes' = Append(errorFlashes, flash("LED_TX", 3, 200))
            /\ pc' = "idle"
            /\ UNCHANGED << lineIdx, countVars >>
       ELSE /\ fileOpen' = IF direct /\ ~openedDirect THEN "directFailed" ELSE "yes"
            /\ pc' = "exec"
            /\ lineIdx' = 1
            /\ lineCount' = 0
            /\ executedCount' = 0
            /\ skippedCount' = 0
            /\ UNCHANGED errorFlashes
  /\ UNCHANGED << card, script, config, defaultDelay, repeatScriptMode,
                  repeatScriptCount, currentRepeat, handler, lastLine, events, down,
                  summary, scriptFile >>

\* one line of the script: the loop body of executeScript_DirectASCII when
\* direct, of the standard execution loop of setup() otherwise
ExecuteLine(direct) ==
  /\ pc = "exec"
  /\ fileOpen = "yes"
  /\ lineIdx <= Len(script)
  /\ LET line == trim(script[lineIdx])
         live == Len(line) > 0 /\ ~startsWith(line, S.SLASHES) /\ ~startsWith(line, S.HASH)
     IN  IF direct
         THEN /\ IF live /\ ~startsWith(line, S.REM)
                 THEN Handled("processDuckyLine_DirectASCII", line,
                              processDuckyLine_DirectASCII(line, config, session))
                 ELSE Skipped(line)
              /\ UNCHANGED countVars
         ELSE IF live /\ config.scriptMode = 1 /\ ~startsWith(line, S.REM)
              THEN /\ Handled("processDuckyLine", line,
                              processDuckyLine(line, config, session))
                   /\ Counted(1, 0)
              ELSE IF live /\ config.scriptMode = 0
              THEN /\ Handled("processInstructionLine", line,
                              processInstructionLine(line, config, session))
                   /\ Counted(1, 0)
              ELSE IF live /\ ~(config.scriptMode = 1 /\ startsWith(line, S.REM))
              THEN /\ Skipped(line)
                   /\ Counted(0, 0)
              ELSE /\ Skipped(line)
                   /\ Counted(0, 1)
  /\ lineIdx' = lineIdx + 1
  /\ UNCHANGED << card, script, config, currentRepeat, pc, passVars >>

\* the tail of the do/while body and its condition: the counts direct ASCII
\* mode sets, the execution summary, currentRepeat++
EndPass(direct) ==
  /\ pc = "exec"
  /\ lineIdx > Len(script) \/ fileOpen = "directFailed"
  /\ IF direct
     THEN /\ lineCount' = 1
          /\ executedCount' = 1
          /\ skippedCount' = 0
     ELSE UNCHANGED countVars
  /\ summary' = << [lineCount |-> lineCount', executedCount |-> executedCount',
                    skippedCount |-> skippedCount'] >>
  /\ currentRepeat' = currentRepeat + 1
  /\ pc' = IF repeatScriptMode /\ (repeatScriptCount = 0 \/ currentRepeat + 1 < repeatScriptCount)
           THEN "open" ELSE "idle"
  /\ UNCHANGED << card, script, config, defaultDelay, repeatScriptMode,
                  repeatScriptCount, lineIdx, handler, lastLine, events, down,
                  fileOpen, scriptFile, errorFlashes >>

Next ==
  \/ InitSD
  \/ SetupConfig
  \/ SelectScript
  \/ OpenScript(useDirectASCII)
  \/ ExecuteLine(useDirectASCII)
  \/ EndPass(useDirectASCII)

Spec == Init /\ [][Next]_vars

(***************************************************************************)
(* The handlers on their own: one call of a handler on any line, under     *)
(* any configuration, from a session state earlier lines can have left.    *)
(***************************************************************************)
\* the configurations that differ for a handler
HandlerConfigs ==
  { c \in Configs : c.scriptMode = 1 /\ c.autorunOnBoot /\ c.repeatCount = 0 }

\* session states earlier lines can have left: the initial one, one after
\* DEFAULTDELAY 100, one with the repeat mode of REPEAT_COUNT = 2
HandlerSessions ==
  { [defaultDelay |-> d, repeatScriptMode |-> r, repeatScriptCount |-> IF r THEN 2 ELSE 0] :
      d \in {0, 100}, r \in BOOLEAN }

InitHandlers ==
  /\ sdCard = sdCardOk
  /\ configFile = noConfigFile
  /\ cardFiles = {}
  /\ scriptFile = << >>
  /\ config \in HandlerConfigs
  /\ script = << >>
  /\ \E s \in HandlerSessions :
       /\ defaultDelay = s.defaultDelay
       /\ repeatScriptMode = s.repeatScriptMode
       /\ repeatScriptCount = s.repeatScriptCount
  /\ currentRepeat = 0
  /\ pc = "call"
  /\ lineIdx = 0
  /\ handler = "none"
  /\ lastLine = << >>
  /\ events = << >>
  /\ down = {}
  /\ fileOpen = "no"
  /\ lineCount = 0
  /\ executedCount = 0
  /\ skippedCount = 0
  /\ summary = << >>
  /\ errorFlashes = << >>

CallProcessDuckyLine ==
  /\ pc = "call"
  /\ \E line \in Lines :
       Handled("processDuckyLine", line, processDuckyLine(line, config, session))
  /\ pc' = "returned"
  /\ UNCHANGED << card, script, config, currentRepeat, lineIdx, passVars, countVars >>

CallProcessInstructionLine ==
  /\ pc = "call"
  /\ \E line \in Lines :
       Handled("processInstructionLine", line,
               processInstructionLine(line, config, session))
  /\ pc' = "returned"
  /\ UNCHANGED << card, script, config, currentRepeat, lineIdx, passVars, countVars >>

CallProcessDuckyLineDirectASCII ==
  /\ pc = "call"
  /\ \E line \in Lines :
       Handled("processDuckyLine_DirectASCII", line,
               processDuckyLine_DirectASCII(line, config, session))
  /\ pc' = "returned"
  /\ UNCHANGED << card, script, config, currentRepeat, lineIdx, passVars, countVars >>

CallTypeLayoutIndependentChar ==
  /\ pc = "call"
  /\ \E c \in Chars :
       Handled("typeLayoutIndependentChar", << c >>,
               [events |-> typeLayoutIndependentChar(c),
                defaultDelay |-> defaultDelay,
                repeatScriptMode |-> repeatScriptMode,
                repeatScriptCount |-> repeatScriptCount])
  /\ pc' = "returned"
  /\ UNCHANGED << card, script, config, currentRepeat, lineIdx, passVars, countVars >>

NextHandlers ==
  \/ CallProcessDuckyLine
  \/ CallProcessInstructionLine
  \/ CallProcessDuckyLineDirectASCII
  \/ CallTypeLayoutIndependentChar

SpecHandlers == InitHandlers /\ [][NextHandlers]_vars

(***************************************************************************)
(* The boot sequence over the cards it can meet: SD cards that fail to     *)
(* mount, config.txt files of any lines, any set of script files.          *)
(***************************************************************************)
\* the lines config.txt is made of
ConfigLines == { CL[f] : f \in DOMAIN CL }

\* the config.txt files on the card: none, one that does not open, and the
\* ones of at most MaxConfigLines lines
BootConfigFiles ==
  { noConfigFile, [exists |-> TRUE, opens |-> FALSE, lines |-> << CL.autorun_false >>] }
  \cup { [exists |-> TRUE, opens |-> TRUE, lines |-> ls] :
           ls \in UNION { [1..n -> ConfigLines] : n \in 0..MaxConfigLines } }

\* the script files a card can hold
ScriptFileNames ==
  { K.payload_txt, K.instructions_txt, K.test_layout_txt, K.key_combo_test_txt,
    K.shift_key_test_txt }

\* the SD cards: the first failures SD.begin calls fail (5: all of them)
SdCards == [failures : 0..5, beginTime : {0, 50}]

\* a config.txt that selects the custom dialect
configFileMode0 == [exists |-> TRUE, opens |-> TRUE, lines |-> << CL.script_mode_0 >>]

InitBoot ==
  /\ \/ /\ sdCard = sdCardOk
        /\ configFile \in BootConfigFiles
        /\ cardFiles = { K.payload_txt }
     \/ /\ sdCard = sdCardOk
        /\ configFile \in { noConfigFile, configFileMode0 }
        /\ cardFiles \in SUBSET ScriptFileNames
     \/ /\ sdCard \in SdCards
        /\ configFile \in { noConfigFile, configFileMode0 }
        /\ cardFiles \in { {}, { K.payload_txt } }
  /\ scriptFile = << >>
  /\ script = << L.string_Hi >>
  /\ config = defaultConfig
  /\ defaultDelay = 0
  /\ repeatScriptMode = FALSE
  /\ repeatScriptCount = 0
  /\ currentRepeat = 0
  /\ pc = "power"
  /\ lineIdx = 0
  /\ handler = "none"
  /\ lastLine = << >>
  /\ events = << >>
  /\ down = {}
  /\ fileOpen = "no"
  /\ lineCount = 0
  /\ executedCount = 0
  /\ skippedCount = 0
  /\ summary = << >>
  /\ errorFlashes = << >>

SpecBoot == InitBoot /\ [][Next]_vars

(***************************************************************************)
(* Replays: a script executed from its first line to its last, twice, the  *)
(* second time from the session state the first has left.                  *)
(***************************************************************************)
\* what one line of the script file adds to a replay: the loop body of
\* executeScript_DirectASCII when direct, of the standard execution loop of
\* setup() otherwise
lineResult(direct, line0, cfg, st) ==
  LET line == trim(line0)
      live == Len(line) > 0 /\ ~startsWith(line, S.SLASHES) /\ ~startsWith(line, S.HASH)
      skipped == [events |-> << >>, defaultDelay |-> st.defaultDelay,
                  repeatScriptMode |-> st.repeatScriptMode,
                  repeatScriptCount |-> st.repeatScriptCount]
  IN  IF direct
      THEN IF live /\ ~startsWith(line, S.REM)
           THEN processDuckyLine_DirectASCII(line, cfg, st)
           ELSE skipped
      ELSE IF live /\ cfg.scriptMode = 1 /\ ~startsWith(line, S.REM)
           THEN processDuckyLine(line, cfg, st)
           ELSE IF live /\ cfg.scriptMode = 0
           THEN processInstructionLine(line, cfg, st)
           ELSE skipped

\* the session state a handler has left when it returned r
sessionOf(r) ==
  [defaultDelay |-> r.defaultDelay, repeatScriptMode |-> r.repeatScriptMode,
   repeatScriptCount |-> r.repeatScriptCount]

RECURSIVE executeScript(_, _, _, _)
\* while (scriptFileHandle.available()): the lines of the script in turn,
\* each from the session state the line before it has left; the events are
\* the events of the first line followed by the events of the lines after
\* it (r and rest are drawn from one-element sets: each is computed once)
executeScript(direct, lines, cfg, st) ==
  IF lines = << >>
  THEN [events |-> << >>, defaultDelay |-> st.defaultDelay,
        repeatScriptMode |-> st.repeatScriptMode,
        repeatScriptCount |-> st.repeatScriptCount]
  ELSE CHOOSE out \in
         UNION { { [rest EXCEPT !.events = r.events \o @] :
                     rest \in { executeScript(direct, Tail(lines), cfg, sessionOf(r)) } } :
                   r \in { lineResult(direct, Head(lines), cfg, st) } } : TRUE

\* the lines of the scripts that are replayed
ReplayLines == ScriptLines \cup { L.defaultdelay_100, L.delay_500 }

\* the scripts that are replayed: at most MaxScriptLen lines
ReplayScripts == UNION { [1..n -> ReplayLines] : n \in 0..MaxScriptLen }

\* the configurations a replay runs under
ReplayConfigs == { c \in Configs : c.autorunOnBoot /\ c.repeatCount = 0 /\ c.scriptMode \in {0, 1} }

InitReplay ==
  /\ sdCard = sdCardOk
  /\ configFile = noConfigFile
  /\ cardFiles = { K.payload_txt }
  /\ scriptFile = K.payload_txt
  /\ script \in ReplayScripts
  /\ config \in ReplayConfigs
  /\ defaultDelay = 0
  /\ repeatScriptMode = FALSE
  /\ repeatScriptCount = 0
  /\ currentRepeat = 0
  /\ pc = "replay1"
  /\ lineIdx = 0
  /\ handler \in { "executeScript_DirectASCII", "setup" }
  /\ lastLine = << >>
  /\ events = << >>
  /\ down = {}
  /\ fileOpen = "yes"
  /\ lineCount = 0
  /\ executedCount = 0
  /\ skippedCount = 0
  /\ summary = << >>
  /\ errorFlashes = << >>

\* a replay that starts from a default delay of 0 each time: C39 does not
\* hold of it
Replay_resetsDefaultDelay ==
  /\ pc \in { "replay1", "replay2" }
  /\ LET r == executeScript(handler = "executeScript_DirectASCII", script, config,
                            [session EXCEPT !.defaultDelay = 0])
     IN  /\ events' = r.events
         /\ down' = keysDown(down, r.events)
         /\ defaultDelay' = r.defaultDelay
         /\ repeatScriptMode' = r.repeatScriptMode
         /\ repeatScriptCount' = r.repeatScriptCount
  /\ pc' = IF pc = "replay1" THEN "replay2" ELSE "replayed"
  /\ UNCHANGED << card, script, config, currentRepeat, lineIdx, handler, lastLine,
                  passVars, countVars >>

\* one replay of the script, by executeScript_DirectASCII or by the
\* standard loop of setup(): events holds what the replay has emitted
Replay ==
  /\ pc \in { "replay1", "replay2" }
  /\ LET r == executeScript(handler = "executeScript_DirectASCII", script, config, session)
     IN  /\ events' = r.events
         /\ down' = keysDown(down, r.events)
         /\ defaultDelay' = r.defaultDelay
         /\ repeatScriptMode' = r.repeatScriptMode
         /\ repeatScriptCount' = r.repeatScriptCount
  /\ pc' = IF pc = "replay1" THEN "replay2" ELSE "replayed"
  /\ UNCHANGED << card, script, config, currentRepeat, lineIdx, handler, lastLine,
                  passVars, countVars >>

NextReplay == Replay

SpecReplay == InitReplay /\ [][NextReplay]_vars

(***************************************************************************)
(* setup() with useDirectASCII false: the standard execution loop, which   *)
(* hands each line to processDuckyLine or processInstructionLine and       *)
(* counts the lines it reads, executes and skips                           *)
(***************************************************************************)
\* the lines of the scripts of the standard loop: comments, an empty line,
\* typing, and REPEAT with a count, with 0, with a negative number and with
\* a word
StandardLines ==
  { L.rem, L.blank, L.string_Hi, L.type_AB,
    L.repeat_2, L.repeat_0, L.repeat_neg, L.repeat_x }

StandardScripts == UNION { [1..n -> StandardLines] : n \in 0..MaxScriptLen }

InitStandard ==
  /\ sdCard = sdCardOk
  /\ configFile \in ConfigFiles
  /\ cardFiles = { K.payload_txt }
  /\ script \in StandardScripts
  /\ scriptFile = << >>
  /\ config = defaultConfig
  /\ defaultDelay = 0
  /\ repeatScriptMode = FALSE
  /\ repeatScriptCount = 0
  /\ currentRepeat = 0
  /\ pc = "power"
  /\ lineIdx = 0
  /\ handler = "none"
  /\ lastLine = << >>
  /\ events = << >>
  /\ down = {}
  /\ fileOpen = "no"
  /\ lineCount = 0
  /\ executedCount = 0
  /\ skippedCount = 0
  /\ summary = << >>
  /\ errorFlashes = << >>

NextStandard ==
  \/ InitSD
  \/ SetupConfig
  \/ SelectScript
  \/ OpenScript(FALSE)
  \/ ExecuteLine(FALSE)
  \/ EndPass(FALSE)

SpecStandard == InitStandard /\ [][NextStandard]_vars

(***************************************************************************)
(* Properties                                                              *)
(***************************************************************************)
\* the events on the keyboard sink: every event but the delays
KeyEvents(ev) == SelectSeq(ev, LAMBDA e : e.op # "delay")

\* the number of events of ev with operation op
CountOp(ev, op) == Cardinality({ i \in 1..Len(ev) : ev[i].op = op })

\* the position of the last press of ev, 0 when ev holds none
LastPress(ev) ==
  LET ps == { i \in 1..Len(ev) : ev[i].op = "press" }
  IN  IF ps = {} THEN 0 ELSE CHOOSE i \in ps : \A j \in ps : i >= j

LineHandlers == { "processDuckyLine", "processDuckyLine_DirectASCII", "processInstructionLine" }

\* C1: after a line has been processed by processDuckyLine,
\* processDuckyLine_DirectASCII or processInstructionLine no key is held down
\* on the sink: every press issued while handling the line is followed,
\* before the handler returns, by a releaseAll.  (The sink has no operation
\* that releases a single key: the firmware never calls one.)
C1_NoKeyHeldAfterLine ==
  handler \in LineHandlers =>
    /\ down = {}
    /\ \A i \in 1..Len(events) :
         events[i].op = "press" =>
           \E j \in (i + 1)..Len(events) : events[j].op = "releaseAll"

C1_Witness ==
  /\ handler = "processDuckyLine"
  /\ lastLine = L.ctrl_alt_delete
  /\ CountOp(events, "press") = 3
  /\ down = {}

\* the modifier a command or token names, as the set of its key codes
ModifierOf(name) ==
  CASE name = S.CTRL \/ name = S.CONTROL -> { KEY_LEFT_CTRL }
    [] name = S.SHIFT -> { KEY_LEFT_SHIFT }
    [] name = S.ALT -> { KEY_LEFT_ALT }
    [] name = S.GUI \/ name = S.WINDOWS -> { KEY_LEFT_GUI }
    [] OTHER -> {}

\* a line made of '+'-separated tokens only
IsPlusLine(line) == indexOf(line, 43, 0) # -1 /\ indexOf(line, 32, 0) = -1

\* a modifier command with a parameter
IsModifierLine(line) ==
  /\ ModifierOf(duckySplit(line).command) # {}
  /\ Len(duckySplit(line).params) > 0

\* the modifiers a combo line asks for
RequestedModifiers(line) ==
  IF IsPlusLine(line)
  THEN UNION { ModifierOf(combinedKeys(line)[i]) : i \in 1..Len(combinedKeys(line)) }
  ELSE ModifierOf(duckySplit(line).command)

\* C2: for every modifier-combo emission (GUI/SHIFT/ALT/CTRL with a
\* parameter, every '+' combination line), at the instant the primary key is
\* pressed the keys down are exactly the requested modifiers plus the primary
\* key, and after releaseAll no key is down.
C2_ComboDownSet ==
  (/\ handler = "processDuckyLine"
   /\ IsPlusLine(lastLine) \/ IsModifierLine(lastLine)
   /\ LastPress(events) > 0) =>
     /\ keysDown({}, SubSeq(events, 1, LastPress(events)))
          = RequestedModifiers(lastLine) \cup { events[LastPress(events)].k }
     /\ down = {}

\* C3: a '+' combination line presses every token, in the order written,
\* before any release, and issues exactly one releaseAll, after the last
\* press; CTRL+ALT+DELETE emits press(Ctrl), press(Alt), press(Delete),
\* releaseAll.
C3_ComboSingleRelease ==
  (handler = "processDuckyLine" /\ IsPlusLine(lastLine)) =>
    LET ke == KeyEvents(events)
    IN  /\ Len(ke) >= 1
        /\ ke[Len(ke)] = ReleaseAll
        /\ \A i \in 1..(Len(ke) - 1) : ke[i].op = "press"
        /\ Len(ke) - 1 >= Len(combinedKeys(lastLine))
        /\ lastLine = L.ctrl_alt_delete =>
             ke = << Press(KEY_LEFT_CTRL), Press(KEY_LEFT_ALT), Press(KEY_DELETE), ReleaseAll >>

\* the documented keycode table: the shifted characters of the digit keys
\* 1 2 3 4 5 6 7 8 9 0, and the punctuation pairs of the US layout as
\* << plain character, shifted character, keycode >>
DocDigitShifted == << 33, 64, 35, 36, 37, 94, 38, 42, 40, 41 >>

DocPunctuation ==
  << << 45, 95, 45 >>, << 61, 43, 46 >>, << 91, 123, 47 >>, << 93, 125, 48 >>,
     << 92, 124, 49 >>, << 59, 58, 51 >>, << 39, 34, 52 >>, << 96, 126, 53 >>,
     << 44, 60, 54 >>, << 46, 62, 55 >>, << 47, 63, 56 >> >>

\* the documented mapping of a character: none, or a keycode and a shift flag
DocMap(c) ==
  IF c \in 97..122 THEN [mapped |-> TRUE, keycode |-> c - 93, shift |-> FALSE]
  ELSE IF c \in 65..90 THEN [mapped |-> TRUE, keycode |-> c - 61, shift |-> TRUE]
  ELSE IF c \in 49..57 THEN [mapped |-> TRUE, keycode |-> c - 19, shift |-> FALSE]
  ELSE IF c = 48 THEN [mapped |-> TRUE, keycode |-> 39, shift |-> FALSE]
  ELSE IF c = 32 THEN [mapped |-> TRUE, keycode |-> 44, shift |-> FALSE]
  ELSE IF \E i \in 1..10 : DocDigitShifted[i] = c
    THEN [mapped |-> TRUE,
          keycode |-> 29 + (CHOOSE i \in 1..10 : DocDigitShifted[i] = c),
          shift |-> TRUE]
  ELSE IF \E i \in 1..Len(DocPunctuation) : DocPunctuation[i][1] = c
    THEN [mapped |-> TRUE,
          keycode |-> DocPunctuation[CHOOSE i \in 1..Len(DocPunctuation) :
                                       DocPunctuation[i][1] = c][3],
          shift |-> FALSE]
  ELSE IF \E i \in 1..Len(DocPunctuation) : DocPunctuation[i][2] = c
    THEN [mapped |-> TRUE,
          keycode |-> DocPunctuation[CHOOSE i \in 1..Len(DocPunctuation) :
                                       DocPunctuation[i][2] = c][3],
          shift |-> TRUE]
  ELSE [mapped |-> FALSE, keycode |-> 0, shift |-> FALSE]

\* the key events the documented table asks for when c is typed
DocCharKeys(c) ==
  IF ~DocMap(c).mapped THEN << >>
  ELSE (IF DocMap(c).shift THEN << Press(KEY_LEFT_SHIFT) >> ELSE << >>)
         \o << Press(DocMap(c).keycode), ReleaseAll >>

\* C4: typeLayoutIndependentChar maps 'a'..'z' to 4..29 without Shift,
\* 'A'..'Z' to the same keycodes with Shift, '1'..'9' to 30..38 and '0' to
\* 39 without Shift, each documented punctuation character to its US-layout
\* keycode with Shift exactly for the shifted member of its pair, space to
\* 44, and no other character to anything.
C4_KeycodeMap ==
  handler = "typeLayoutIndependentChar" =>
    KeyEvents(events) = DocCharKeys(lastLine[1])

C4_Witness ==
  /\ handler = "typeLayoutIndependentChar"
  /\ lastLine = << 48 >>
  /\ KeyEvents(events) = << Press(KEY_0), ReleaseAll >>

\* the last line was typed in layout-independent mode by STRING or TYPE
IsLayoutTyping ==
  /\ config.useLayoutIndependent
  /\ \/ handler = "processDuckyLine" /\ duckySplit(lastLine).command = S.STRING
     \/ /\ handler = "processInstructionLine"
        /\ equalsIgnoreCase(instructionSplit(lastLine).command, S.TYPE)

\* the text the last line types
TypedText ==
  IF handler = "processDuckyLine" THEN duckySplit(lastLine).params
  ELSE instructionSplit(lastLine).params

\* C5: in layout-independent mode STRING text and TYPE:text emit, for each
\* mapped character in order, a Shift press iff the character needs Shift,
\* the press of its keycode, one releaseAll and a settle delay, so that a
\* character's first press comes after the releaseAll of the one before;
\* 'Hi!' gives Shift+h-keycode, i-keycode, Shift+1-keycode.
C5_LayoutIndependentTyping ==
  IsLayoutTyping =>
    /\ KeyEvents(events)
         = concat([i \in 1..Len(TypedText) |-> DocCharKeys(TypedText[i])])
    /\ \A i \in 1..Len(events) :
         events[i].op = "releaseAll" =>
           /\ i < Len(events)
           /\ events[i + 1].op = "delay"
           /\ events[i + 1].k > 0
    /\ lastLine = L.string_Hi =>
         KeyEvents(events)
           = << Press(KEY_LEFT_SHIFT), Press(11), ReleaseAll,
                Press(12), ReleaseAll,
                Press(KEY_LEFT_SHIFT), Press(30), ReleaseAll >>

C5_Witness ==
  /\ IsLayoutTyping
  /\ handler = "processInstructionLine"
  /\ lastLine = L.type_AB
  /\ CountOp(events, "releaseAll") = 2

\* C6: in layout-independent typing a character outside the keycode map
\* produces no sink event (no press, no releaseAll, no write), and the
\* remaining characters of the string are still typed, in order.
C6_UnmappedCharacterSkipped ==
  /\ (handler = "typeLayoutIndependentChar" /\ ~DocMap(lastLine[1]).mapped) =>
       KeyEvents(events) = << >>
  /\ IsLayoutTyping =>
       /\ CountOp(events, "write") = 0
       /\ KeyEvents(events)
            = KeyEvents(typeLayoutIndependent(
                SelectSeq(TypedText, LAMBDA c : DocMap(c).mapped)))

C6_Witness ==
  /\ IsLayoutTyping
  /\ lastLine = L.string_unmapped
  /\ \E i \in 1..Len(TypedText) : ~DocMap(TypedText[i]).mapped
  /\ KeyEvents(events) = << Press(4), ReleaseAll, Press(5), ReleaseAll >>

\* C7: in a script run from setup(), each line that is dispatched is
\* dispatched with the dialect config.scriptMode selects:
\* processInstructionLine when SCRIPT_MODE = 0, the Ducky dialect when
\* SCRIPT_MODE = 1.
C7_DialectByScriptMode ==
  handler \in LineHandlers =>
    /\ config.scriptMode = 0 => handler = "processInstructionLine"
    /\ config.scriptMode = 1 =>
         handler \in { "processDuckyLine", "processDuckyLine_DirectASCII" }

C9_BootMatchesProcessDuckyLine ==
  handler = "processDuckyLine_DirectASCII" =>
    KeyEvents(events) = KeyEvents(processDuckyLine(lastLine, config, session).events)

\* the script holds the line
Holds(line) == \E i \in 1..Len(script) : script[i] = line

\* C10: a script with REPEAT n is executed n times in total for n > 0, and
\* REPEAT 0 behaves as REPEAT 1: exactly one pass.
C10_RepeatPasses ==
  (pc = "idle" /\ config.autorunOnBoot /\ fileOpen = "yes") =>
    /\ (Holds(L.repeat_3) /\ ~Holds(L.repeat_0)) =>
         (repeatScriptMode /\ repeatScriptCount = 3 /\ currentRepeat = 3)
    /\ (Holds(L.repeat_0) /\ ~Holds(L.repeat_3)) =>
         (repeatScriptMode /\ repeatScriptCount = 1 /\ currentRepeat = 1)

\* C11: at the end of each script pass setup() goes on with another pass iff
\* repeatScriptMode and (repeatScriptCount = 0 or currentRepeat <
\* repeatScriptCount), the condition taken on currentRepeat as it is before
\* the increment of this pass, currentRepeat starting at 0: the do/while loop
\* decides as the reference algorithm does after every pass.
C11_RepeatLoopDecision ==
  [][(pc = "exec" /\ pc' # "exec") =>
       ((pc' = "open") <=>
          (repeatScriptMode /\ (repeatScriptCount = 0 \/ currentRepeat < repeatScriptCount)))]_vars

\* the script holds a REPEAT line
HoldsRepeat == \E i \in 1..Len(script) : duckySplit(trim(script[i])).command = S.REPEAT

\* C12: REPEAT_COUNT is the number of times the execution is repeated: with
\* REPEAT_COUNT = 0 the script runs exactly once, and every REPEAT_COUNT > 0
\* gives at least one repetition, more passes than REPEAT_COUNT = 0 gives.
C12_RepeatCountPasses ==
  (pc = "idle" /\ config.autorunOnBoot /\ ~errorIndicator /\ ~HoldsRepeat) =>
    /\ config.repeatCount = 0 => currentRepeat = 1
    /\ config.repeatCount > 0 => currentRepeat > 1

\* C13 as claimed: at the start of each full script pass the repeat counter
\* currentRepeat is zero.
C13_CountersResetAtPassStart ==
  (pc = "exec" /\ lineIdx = 1) => currentRepeat = 0

\* C13: currentRepeat is zero at the start of the first script pass only; the
\* repeat counters are not reset between passes: opening the script for a pass
\* leaves currentRepeat and repeatScriptCount as the previous pass left them,
\* and every pass that ends adds one to currentRepeat, so that at the start of
\* a pass currentRepeat is the number of passes that have ended.
C13_CountersKeptAcrossPasses ==
  [][/\ (pc = "open" /\ pc' = "exec") =>
          /\ currentRepeat' = currentRepeat
          /\ repeatScriptCount' = repeatScriptCount
          /\ (currentRepeat' = 0) <=> (summary = << >>)
     /\ (pc = "exec" /\ pc' # "exec") => currentRepeat' = currentRepeat + 1]_vars

C13_Witness ==
  /\ pc = "exec"
  /\ lineIdx = 1
  /\ fileOpen = "yes"
  /\ summary # << >>
  /\ currentRepeat = 1
  /\ repeatScriptCount = 2

\* what the handler called name returns for line
HandlerResult(name, line, cfg, st) ==
  CASE name = "processDuckyLine" -> processDuckyLine(line, cfg, st)
    [] name = "processDuckyLine_DirectASCII" -> processDuckyLine_DirectASCII(line, cfg, st)
    [] name = "processInstructionLine" -> processInstructionLine(line, cfg, st)

DuckyHandlers == { "processDuckyLine", "processDuckyLine_DirectASCII" }

\* a handler of the Ducky dialect takes the line for a comment
IsRemLine(name, line) == name \in DuckyHandlers /\ startsWith(trim(line), S.REM)

\* a handler of the Ducky dialect takes the line for DEFAULTDELAY / DEFAULT_DELAY
IsDefaultDelayLine(name, line) ==
  /\ name \in DuckyHandlers
  /\ ~startsWith(trim(line), S.REM)
  /\ duckySplit(trim(line)).command \in { S.DEFAULTDELAY, S.DEFAULT_DELAY }

\* all of ev but its last event
Front(ev) == SubSeq(ev, 1, Len(ev) - 1)

\* C14: a DEFAULTDELAY n (DEFAULT_DELAY n) command leaves defaultDelay = n,
\* no other command changes defaultDelay, and every dispatched command ends
\* with one sleep of defaultDelay milliseconds, after all of its own events:
\* what it emits is what it emits with no default delay, with the final
\* sleep of 0 replaced by the sleep of defaultDelay.
C14_DefaultDelayAfterCommand ==
  [][(pc = "call" /\ pc' = "returned" /\ handler' \in LineHandlers
        /\ ~IsRemLine(handler', lastLine')) =>
       /\ IF IsDefaultDelayLine(handler', lastLine')
          THEN defaultDelay' = toInt(duckySplit(trim(lastLine')).params)
          ELSE defaultDelay' = defaultDelay
       /\ Len(events') > 0
       /\ events'[Len(events')] = Delay(defaultDelay')
       /\ Front(events') =
            Front(HandlerResult(handler', lastLine', config,
                                [session EXCEPT !.defaultDelay = 0]).events)]_vars

C14_Witness ==
  /\ pc = "returned"
  /\ handler = "processDuckyLine"
  /\ lastLine = L.string_Hi
  /\ defaultDelay = 100
  /\ CountOp(events, "press") >= 3
  /\ events[Len(events)] = Delay(100)
  /\ CountOp(events, "delay") = CountOp(Front(events), "delay") + 1
  /\ \A i \in 1..(Len(events) - 1) : events[i] # Delay(100)

\* the lines of the script a pass dispatches to a handler: the lines that,
\* trimmed, are neither blank nor a comment (//, #, and REM in the Ducky
\* dialect setup() executes)
DispatchedLines ==
  { i \in 1..Len(script) :
      LET line == trim(script[i])
      IN  /\ Len(line) > 0
          /\ ~startsWith(line, S.SLASHES)
          /\ ~startsWith(line, S.HASH)
          /\ ~startsWith(line, S.REM) }

\* C15: the execution summary of a pass reports executedCount = the number
\* of lines dispatched and skippedCount = the number of blank or comment
\* lines: an empty script gives 0 and 0, a script of REM lines only gives
\* executedCount = 0 and every line skipped.
C15_SummaryCounts ==
  (summary # << >> /\ fileOpen = "yes" /\ pc \in { "open", "idle" }) =>
    /\ summary[1].executedCount = Cardinality(DispatchedLines)
    /\ summary[1].skippedCount = Len(script) - Cardinality(DispatchedLines)

\* a line whose command name, FOO, is in no dispatch table
IsUnknownLine(line) == duckySplit(trim(line)).command = L.foo

\* C16: a line whose command name is not in the dispatch table is a no-op:
\* handling it emits no key event and leaves defaultDelay, repeatScriptMode
\* and repeatScriptCount as they were, the script goes on with the next line,
\* and the line is counted as executed: the summary of a pass counts every
\* such line of the script among the commands executed.
C16_UnknownCommandNoOp ==
  /\ [][(pc = "exec" /\ lineIdx' = lineIdx + 1 /\ IsUnknownLine(script[lineIdx])) =>
          /\ handler' \in LineHandlers
          /\ KeyEvents(events') = << >>
          /\ defaultDelay' = defaultDelay
          /\ repeatScriptMode' = repeatScriptMode
          /\ repeatScriptCount' = repeatScriptCount
          /\ pc' = "exec"]_vars
  /\ []((summary # << >> /\ fileOpen = "yes" /\ pc \in { "open", "idle" }) =>
          summary[1].executedCount
            >= Cardinality({ i \in 1..Len(script) : IsUnknownLine(script[i]) }))

\* a line of the Ducky dialect made of the command word alone
IsBareCommand(line, words) ==
  /\ duckySplit(trim(line)).command \in words
  /\ duckySplit(trim(line)).params = << >>

\* C17 as claimed: DELAY, DEFAULTDELAY, REPEAT, STRING or STRINGLN without a
\* parameter is skipped as a no-op: no key event, defaultDelay,
\* repeatScriptMode and repeatScriptCount left as they were.
C17_MissingParamNoOp ==
  [][(/\ pc = "call" /\ pc' = "returned" /\ handler' \in DuckyHandlers
      /\ IsBareCommand(lastLine', { S.DELAY, S.DEFAULTDELAY, S.DEFAULT_DELAY,
                                    S.REPEAT, S.STRING, S.STRINGLN })) =>
       /\ KeyEvents(events') = << >>
       /\ defaultDelay' = defaultDelay
       /\ repeatScriptMode' = repeatScriptMode
       /\ repeatScriptCount' = repeatScriptCount]_vars

\* the key events of Enter alone, as the handler and the typing mode send it
EnterAlone(name, cfg) ==
  IF name = "processDuckyLine_DirectASCII" THEN << Write(KEY_RETURN) >>
  ELSE IF cfg.useLayoutIndependent THEN << Press(KEY_RETURN), ReleaseAll >>
  ELSE << Write(13), Write(10) >>

\* C17: a command without its parameter never stops the handler, and DELAY
\* and STRING without a parameter emit no key event and leave defaultDelay,
\* repeatScriptMode and repeatScriptCount as they were; DEFAULTDELAY without
\* a parameter sets defaultDelay to 0; STRINGLN without a parameter sends
\* Enter alone; REPEAT without a parameter turns repeat mode on with a count
\* of 1 in processDuckyLine and is ignored by processDuckyLine_DirectASCII.
C17_MissingParamEffects ==
  [][(pc = "call" /\ pc' = "returned" /\ handler' \in DuckyHandlers) =>
       /\ IsBareCommand(lastLine', { S.DELAY, S.STRING }) =>
            /\ KeyEvents(events') = << >>
            /\ defaultDelay' = defaultDelay
            /\ repeatScriptMode' = repeatScriptMode
            /\ repeatScriptCount' = repeatScriptCount
       /\ IsBareCommand(lastLine', { S.DEFAULTDELAY, S.DEFAULT_DELAY }) =>
            /\ KeyEvents(events') = << >>
            /\ defaultDelay' = 0
            /\ repeatScriptMode' = repeatScriptMode
            /\ repeatScriptCount' = repeatScriptCount
       /\ IsBareCommand(lastLine', { S.STRINGLN }) =>
            /\ KeyEvents(events') = EnterAlone(handler', config)
            /\ defaultDelay' = defaultDelay
            /\ repeatScriptMode' = repeatScriptMode
            /\ repeatScriptCount' = repeatScriptCount
       /\ IsBareCommand(lastLine', { S.REPEAT }) =>
            /\ KeyEvents(events') = << >>
            /\ defaultDelay' = defaultDelay
            /\ repeatScriptMode' = (repeatScriptMode \/ handler' = "processDuckyLine")
            /\ repeatScriptCount' =
                 IF handler' = "processDuckyLine" THEN 1 ELSE repeatScriptCount]_vars

C17_Witness ==
  /\ pc = "returned"
  /\ handler = "processDuckyLine"
  /\ lastLine = L.repeat
  /\ repeatScriptMode
  /\ repeatScriptCount = 1
  /\ KeyEvents(events) = << >>

\* s with its lower-case letters in upper case
toUpper(s) == [i \in 1..Len(s) |-> IF s[i] >= 97 /\ s[i] <= 122 THEN s[i] - 32 ELSE s[i]]

\* the line with its command name, the part before the separator sep (or the
\* whole line when it holds none), in upper case and its params as they are
UpperCommand(line, sep) ==
  LET i == indexOf(line, sep, 0)
  IN  IF i = -1 THEN toUpper(line)
      ELSE toUpper(substring(line, 0, i)) \o substringFrom(line, i)

\* the separator of the dialect a handler parses: ':' or ' '
SeparatorOf(name) == IF name = "processInstructionLine" THEN 58 ELSE 32

\* a line with a command name and params, not a '+' combination of key names
\* and not a comment in either spelling
IsCommandLine(name, line) ==
  /\ indexOf(trim(line), 43, 0) = -1
  /\ ~IsRemLine(name, UpperCommand(trim(line), SeparatorOf(name)))

FirstSpace(line) ==
  LET sp == { i \in 1..Len(line) : line[i] = 32 }
  IN  IF sp = {} THEN 0 ELSE CHOOSE i \in sp : \A j \in sp : i <= j

\* the split the Ducky dialect is documented with: the command name is what
\* stands left of the first space, the params what stands right of it with
\* the white space around them removed; a line without a space is all command
DocSplit(line) ==
  IF FirstSpace(line) = 0
  THEN [command |-> line, params |-> << >>]
  ELSE [command |-> trim(SubSeq(line, 1, FirstSpace(line) - 1)),
        params |-> trim(SubSeq(line, FirstSpace(line) + 1, Len(line)))]

\* C19: in the Ducky dialect a line beginning with REM is a comment: it emits
\* no key event, changes no session state and is not followed by the default
\* delay; any other line is split on its first space into the command name
\* (the left part) and the trimmed params (the right part, empty when the
\* line has no space), and is handled as that command with those params.
C19_RemAndSplit ==
  [][(pc = "call" /\ pc' = "returned" /\ handler' \in DuckyHandlers) =>
       IF startsWith(trim(lastLine'), S.REM)
       THEN /\ KeyEvents(events') = << >>
            /\ \A i \in 1..Len(events') : events'[i] # Delay(defaultDelay)
            /\ defaultDelay' = defaultDelay
            /\ repeatScriptMode' = repeatScriptMode
            /\ repeatScriptCount' = repeatScriptCount
       ELSE /\ duckySplit(trim(lastLine')) = DocSplit(trim(lastLine'))
            /\ (indexOf(lastLine', 43, 0) = -1 /\ DocSplit(trim(lastLine')).params # << >>) =>
                 events' = HandlerResult(handler',
                                         DocSplit(trim(lastLine')).command \o << 32 >>
                                           \o DocSplit(trim(lastLine')).params,
                                         config, session).events]_vars

C19_Witness ==
  /\ pc = "returned"
  /\ handler = "processDuckyLine"
  /\ lastLine = L.string_spaces
  /\ config.useLayoutIndependent
  /\ KeyEvents(events) = KeyEvents(typeLayoutIndependent(<< 97, 32, 98 >>))
  /\ CountOp(events, "press") = 3

\* C20: if the script file cannot be opened the run is aborted: the error
\* indicator is triggered, no line of the script is dispatched and no key
\* event is emitted, and setup() attempts no further pass, repeat mode or
\* not; a line, whatever it holds, never aborts the run: after it the next
\* line is read.
C20_OpenFailureAborts ==
  /\ [](fileOpen \in { "setupFailed", "directFailed" } =>
          (errorIndicator /\ pc = "idle"))
  /\ [][(pc = "open" /\ fileOpen' \in { "setupFailed", "directFailed" }) =>
          UNCHANGED << handler, lastLine, events, down >>]_vars
  /\ [][(pc = "exec" /\ lineIdx' = lineIdx + 1) => (pc' = "exec" /\ ~errorIndicator')]_vars

(***************************************************************************)
(* The boot sequence: the choice of the script file, the LED codes, the    *)
(* configuration file.                                                     *)
(***************************************************************************)
\* the diagnostic test files
TestFileNames == { K.test_layout_txt, K.key_combo_test_txt, K.shift_key_test_txt }

\* the normal script files on the card: the ones the configuration names
NormalFiles == { config.duckyScriptFile, config.customScriptFile } \cap cardFiles

\* C21: the script file executed is chosen with the priority layout test >
\* combo test > shift test > normal script: for every combination of the
\* files on the card, the highest-priority file there is the one opened.
C21_ScriptFilePriority ==
  [][pc = "select" =>
       IF K.test_layout_txt \in cardFiles
       THEN pc' = "open" /\ scriptFile' = K.test_layout_txt
       ELSE IF K.key_combo_test_txt \in cardFiles
       THEN pc' = "open" /\ scriptFile' = K.key_combo_test_txt
       ELSE IF K.shift_key_test_txt \in cardFiles
       THEN pc' = "open" /\ scriptFile' = K.shift_key_test_txt
       ELSE NormalFiles # {} => (pc' = "open" /\ scriptFile' \in NormalFiles)]_vars

\* C22: whenever a diagnostic test file is on the card the firmware runs a
\* test file, not a regular script, whether or not the regular payload file
\* or the instructions file exists.
C22_TestFileAlwaysRuns ==
  [][(pc = "select" /\ cardFiles \cap TestFileNames # {}) =>
       (pc' = "open" /\ scriptFile' \in cardFiles \cap TestFileNames)]_vars

\* C23: the error indication follows the documented LED codes: when the SD
\* card initialization has failed LED_TX has flashed 5 rapid times, and when
\* the script file has failed to open LED_TX has flashed 3 slower times.
C23_LedCodes ==
  /\ (pc = "halted" /\ sdCard.failures >= 5) =>
       \E i \in 1..Len(errorFlashes) : errorFlashes[i] = flash("LED_TX", 5, 100)
  /\ fileOpen = "setupFailed" =>
       (errorFlashes # << >> /\ errorFlashes[Len(errorFlashes)] = flash("LED_TX", 3, 200))

\* the lines readConfigFile reads: none of a file that is missing or does
\* not open
LinesRead(file) == IF file.exists /\ file.opens THEN file.lines ELSE << >>

\* what a line of config.txt sets, as config.txt documents it: nothing
\* (key << >>) when it is blank, a # or // comment or holds no '=', else
\* the key left of the first '=', in upper case, and the value right of it
SettingOf(line) ==
  LET t == trim(line)
      eq == { i \in 1..Len(t) : t[i] = 61 }
  IN  IF t = << >> \/ t[1] = 35 \/ (Len(t) >= 2 /\ t[1] = 47 /\ t[2] = 47) \/ eq = {}
      THEN [key |-> << >>, value |-> << >>]
      ELSE LET p == CHOOSE i \in eq : \A j \in eq : i <= j
           IN  [key |-> toUpper(trim(SubSeq(t, 1, p - 1))),
                value |-> trim(SubSeq(t, p + 1, Len(t)))]

\* the keys the lines read of file assign
AssignedKeys(file) ==
  { SettingOf(LinesRead(file)[i]).key : i \in 1..Len(LinesRead(file)) }

\* the value of the last line read of file that assigns key; << -1 >> when
\* no line does
LastValue(file, key) ==
  LET at == { i \in 1..Len(LinesRead(file)) : SettingOf(LinesRead(file)[i]).key = key }
  IN  IF at = {} THEN << -1 >>
      ELSE SettingOf(LinesRead(file)[CHOOSE i \in at : \A j \in at : j <= i]).value

\* AUTORUN is false: its value is false, no or 0, in any case of letters
AutorunOff(file) ==
  toUpper(LastValue(file, K.AUTORUN)) \in { toUpper(K.vfalse), toUpper(K.vno), K.v0 }

\* C24: when AUTORUN is false (false, no or 0) the script is not run on
\* boot: setup() returns without choosing or opening a script file and no
\* keyboard event is ever emitted; for any other AUTORUN value, and with
\* AUTORUN unset, setup() goes on to choose the script file and to open it.
C24_AutorunGate ==
  /\ [](AutorunOff(configFile) =>
          /\ pc \in { "power", "boot", "idle" }
          /\ scriptFile = << >>
          /\ fileOpen = "no"
          /\ events = << >>
          /\ down = {})
  /\ [][(pc = "boot" /\ ~AutorunOff(configFile)) => pc' = "select"]_vars
  /\ []((pc = "idle" /\ ~AutorunOff(configFile)) => fileOpen # "no")

C24_Witness ==
  /\ pc = "idle"
  /\ configFile.opens
  /\ configFile.lines = << CL.autorun_true, CL.autorun_No >>
  /\ ~config.autorunOnBoot
  /\ fileOpen = "no"

\* the key of config.txt that sets each option of the config struct
OptionKey ==
  [scriptMode |-> K.SCRIPT_MODE, duckyScriptFile |-> K.DUCKY_SCRIPT_FILE,
   customScriptFile |-> K.CUSTOM_SCRIPT_FILE, typingDelay |-> K.TYPING_DELAY,
   useLayoutIndependent |-> K.USE_LAYOUT_INDEPENDENT, autorunOnBoot |-> K.AUTORUN,
   initialDelay |-> K.INITIAL_DELAY, repeatCount |-> K.REPEAT_COUNT,
   debugOutput |-> K.DEBUG_OUTPUT]

\* C25: after readConfigFile every option that no well-formed KEY = VALUE
\* line of the config file assigns has its default value: blank lines,
\* comment lines, lines without '=' and lines with an unknown key change no
\* option, and a missing or unopenable config file leaves every option at
\* its default.
C25_UnassignedOptionsDefault ==
  [][pc = "boot" =>
       LET assigned == AssignedKeys(configFile)
       IN  /\ DOMAIN config' = DOMAIN OptionKey
           /\ \A f \in DOMAIN OptionKey :
                OptionKey[f] \notin assigned => config'[f] = defaultConfig[f]]_vars

C25_Witness ==
  /\ pc = "select"
  /\ configFile.opens
  /\ configFile.lines = << CL.unknown_key, CL.repeat_2 >>
  /\ config = [defaultConfig EXCEPT !.repeatCount = 2]

\* a handler of the Ducky dialect takes the line for REPEAT
IsRepeatLine(name, line) ==
  /\ name \in DuckyHandlers
  /\ ~startsWith(trim(line), S.REM)
  /\ duckySplit(trim(line)).command = S.REPEAT

\* C27: the session state is mutated only by the REPEAT and DEFAULTDELAY
\* handlers and by the driver's loop: every other line a handler is given,
\* whatever its command, and every line it skips, leaves defaultDelay,
\* repeatScriptMode, repeatScriptCount and currentRepeat as they were.
C27_SessionOwnedByDriver ==
  [][(pc = "call" /\ pc' = "returned" /\ handler' \in LineHandlers
        /\ ~IsDefaultDelayLine(handler', lastLine')
        /\ ~IsRepeatLine(handler', lastLine')) =>
       UNCHANGED << defaultDelay, repeatScriptMode, repeatScriptCount, currentRepeat >>]_vars

C27_Witness ==
  /\ pc = "returned"
  /\ handler = "processInstructionLine"
  /\ lastLine = L.opencmd_mixed
  /\ CountOp(events, "press") > 0
  /\ defaultDelay = 100
  /\ repeatScriptMode
  /\ repeatScriptCount = 2

\* C28: in direct ASCII typing STRING text emits exactly one write event per
\* character of text, in the order of the text and with the character's own
\* value, and emits no press and no releaseAll event.
C28_DirectStringWrites ==
  [][(/\ pc = "call" /\ pc' = "returned"
      /\ handler' = "processDuckyLine_DirectASCII"
      /\ ~IsRemLine(handler', lastLine')
      /\ DocSplit(trim(lastLine')).command = S.STRING) =>
       LET text == DocSplit(trim(lastLine')).params
       IN  /\ KeyEvents(events') = [i \in 1..Len(text) |-> Write(text[i])]
           /\ CountOp(events', "press") = 0
           /\ CountOp(events', "releaseAll") = 0]_vars

C28_Witness ==
  /\ pc = "returned"
  /\ handler = "processDuckyLine_DirectASCII"
  /\ lastLine = L.string_spaces
  /\ KeyEvents(events) = << Write(97), Write(32), Write(98) >>

\* the single named-key commands and the key code each one names
NamedKeys ==
  { << S.ENTER, KEY_RETURN >>, << S.BACKSPACE, KEY_BACKSPACE >>, << S.TAB, KEY_TAB >>,
    << S.CAPSLOCK, KEY_CAPS_LOCK >>, << S.DELETE, KEY_DELETE >>, << S.END, KEY_END >>,
    << S.ESC, KEY_ESC >>, << S.ESCAPE, KEY_ESC >>, << S.HOME, KEY_HOME >>,
    << S.INSERT, KEY_INSERT >>, << S.PAGEUP, KEY_PAGE_UP >>,
    << S.PAGEDOWN, KEY_PAGE_DOWN >>, << S.PRINTSCREEN, KEY_PRINT_SCREEN >>,
    << S.F1, KEY_F1 >>, << S.F2, KEY_F2 >>, << S.F3, KEY_F3 >>, << S.F4, KEY_F4 >>,
    << S.F5, KEY_F5 >>, << S.F6, KEY_F6 >>, << S.F7, KEY_F7 >>, << S.F8, KEY_F8 >>,
    << S.F9, KEY_F9 >>, << S.F10, KEY_F10 >>, << S.F11, KEY_F11 >>, << S.F12, KEY_F12 >>,
    << S.UP, KEY_UP_ARROW >>, << S.UPARROW, KEY_UP_ARROW >>,
    << S.DOWN, KEY_DOWN_ARROW >>, << S.DOWNARROW, KEY_DOWN_ARROW >>,
    << S.LEFT, KEY_LEFT_ARROW >>, << S.LEFTARROW, KEY_LEFT_ARROW >>,
    << S.RIGHT, KEY_RIGHT_ARROW >>, << S.RIGHTARROW, KEY_RIGHT_ARROW >>,
    << S.PAUSE, KEY_PAUSE >>, << S.BREAK, KEY_PAUSE >>,
    << S.SPACE, 44 >>, << S.SPACE, 32 >> }

\* ev is press(k), a non-zero hold, releaseAll and no other key event
IsPressHoldRelease(ev, k) ==
  /\ KeyEvents(ev) = << Press(k), ReleaseAll >>
  /\ \E i, j, l \in 1..Len(ev) :
       /\ i < j /\ j < l
       /\ ev[i] = Press(k)
       /\ ev[j].op = "delay" /\ ev[j].k > 0
       /\ ev[l] = ReleaseAll

\* C29: each single named-key command emits exactly press(its own key
\* code), a hold, releaseAll: one press, a non-zero hold between the press
\* and the release, one releaseAll, and no other key event.
C29_NamedKeyPressHoldRelease ==
  [][(pc = "call" /\ pc' = "returned" /\ handler' \in DuckyHandlers) =>
       \A nk \in NamedKeys :
         trim(lastLine') = nk[1] =>
           \E k \in { n[2] : n \in { m \in NamedKeys : m[1] = nk[1] } } :
             IsPressHoldRelease(events', k)]_vars

\* the modifier commands and the key code of the modifier each one names
ModifierKeys ==
  { << S.GUI, KEY_LEFT_GUI >>, << S.WINDOWS, KEY_LEFT_GUI >>, << S.SHIFT, KEY_LEFT_SHIFT >>,
    << S.ALT, KEY_LEFT_ALT >>, << S.CTRL, KEY_LEFT_CTRL >>, << S.CONTROL, KEY_LEFT_CTRL >> }

\* the positions of ev that hold an event of operation op
PositionsOf(ev, op) == { i \in 1..Len(ev) : ev[i].op = op }

\* ev holds a non-zero delay at a position after from and before to
DelayBetween(ev, from, to) ==
  \E i \in PositionsOf(ev, "delay") : from < i /\ i < to /\ ev[i].k > 0

\* ev is: press modifier, dwell, press primary key, hold, one releaseAll,
\* settle delay, and no other key event
IsModifierSequence(ev, modifier) ==
  /\ Len(KeyEvents(ev)) = 3
  /\ KeyEvents(ev)[1] = Press(modifier)
  /\ KeyEvents(ev)[2].op = "press"
  /\ KeyEvents(ev)[3] = ReleaseAll
  /\ LET first == CHOOSE i \in PositionsOf(ev, "press") :
                    \A j \in PositionsOf(ev, "press") : i <= j
         second == CHOOSE i \in PositionsOf(ev, "press") :
                     \A j \in PositionsOf(ev, "press") : j <= i
         release == CHOOSE i \in PositionsOf(ev, "releaseAll") : TRUE
     IN  /\ DelayBetween(ev, first, second)
         /\ DelayBetween(ev, second, release)
         /\ DelayBetween(ev, release, Len(ev) + 1)

\* a parameter that is not one lower-case letter
IsNonLowercaseParam(params) ==
  params # << >> /\ ~(Len(params) = 1 /\ params[1] >= 97 /\ params[1] <= 122)

\* C30: the emission is structurally the same for the four modifiers GUI,
\* SHIFT, ALT and CTRL with a parameter that is not a lower-case letter:
\* press modifier, dwell, press primary key, hold, one releaseAll, settle
\* delay after the release; only the durations differ between modifiers.
C30_ModifierSequence ==
  [][(pc = "call" /\ pc' = "returned" /\ handler' \in DuckyHandlers) =>
       \A mk \in ModifierKeys :
         (/\ DocSplit(trim(lastLine')).command = mk[1]
          /\ IsNonLowercaseParam(DocSplit(trim(lastLine')).params)) =>
           IsModifierSequence(events', mk[2])]_vars

\* C26: for every script with repeat disabled and every configuration,
\* replaying the script twice yields two identical event sequences, key
\* events and requested delays, when the second replay starts from the
\* interpreter state the first has left.
C26_ReplayIdempotent ==
  [][(pc = "replay2" /\ pc' = "replayed" /\ ~repeatScriptMode /\ ~repeatScriptMode') =>
       events' = events]_vars

\* one lower-case letter
IsLowercaseLetter(params) == Len(params) = 1 /\ params[1] >= 97 /\ params[1] <= 122

\* C31: for GUI, ALT and CTRL with a single-character parameter the primary
\* key pressed is the raw key code of the keycode map (4 + offset from 'a')
\* iff layout-independent typing is configured and the character is a
\* lower-case letter; in every other case the character is pressed as given.
C31_ModifierPrimaryKey ==
  [][(pc = "call" /\ pc' = "returned" /\ handler' \in DuckyHandlers) =>
       \A mk \in ModifierKeys \ { << S.SHIFT, KEY_LEFT_SHIFT >> } :
         (/\ DocSplit(trim(lastLine')).command = mk[1]
          /\ Len(DocSplit(trim(lastLine')).params) = 1) =>
           LET c == DocSplit(trim(lastLine')).params[1]
           IN  /\ Len(KeyEvents(events')) >= 2
               /\ KeyEvents(events')[1] = Press(mk[2])
               /\ KeyEvents(events')[2] =
                    IF config.useLayoutIndependent /\ c >= 97 /\ c <= 122
                    THEN Press(4 + (c - 97))
                    ELSE Press(c)]_vars

\* C32: SHIFT with one lower-case letter bypasses the modifier sequence: it
\* emits exactly one write event, carrying the upper-case letter, and no
\* press or releaseAll; no other modifier command (GUI, ALT, CTRL) ever
\* emits a write event.
C32_ShiftLowercaseWrite ==
  [][(pc = "call" /\ pc' = "returned" /\ handler' \in DuckyHandlers) =>
       \A mk \in ModifierKeys :
         DocSplit(trim(lastLine')).command = mk[1] =>
           IF mk[1] = S.SHIFT
           THEN IsLowercaseLetter(DocSplit(trim(lastLine')).params) =>
                  KeyEvents(events') = << Write(DocSplit(trim(lastLine')).params[1] - 32) >>
           ELSE CountOp(events', "write") = 0]_vars

\* the tokens of a line between its '+' characters, every one of them, an
\* empty last token left out
PlusTokens(line) ==
  LET ps == { i \in 1..Len(line) : line[i] = 43 }
      n == Cardinality(ps)
      nth(j) == CHOOSE p \in ps : Cardinality({ q \in ps : q < p }) = j - 1
      start(j) == IF j = 1 THEN 1 ELSE nth(j - 1) + 1
      stop(j) == IF j <= n THEN nth(j) - 1 ELSE Len(line)
      all == [j \in 1..(n + 1) |-> SubSeq(line, start(j), stop(j))]
  IN  IF all[n + 1] = << >> THEN SubSeq(all, 1, n) ELSE all

\* the smaller of two numbers
Min(a, b) == IF a <= b THEN a ELSE b

\* C33: a '+' combination line with k tokens presses exactly its first
\* min(k, 5) tokens, in order, and then releases; the tokens after the fifth
\* leave no key event, and a line of exactly 5 tokens presses all 5.
C33_CombinationCap ==
  [][(/\ pc = "call" /\ pc' = "returned" /\ handler' = "processDuckyLine"
      /\ IsPlusLine(trim(lastLine'))) =>
       LET tokens == PlusTokens(trim(lastLine'))
           m == Min(Len(tokens), 5)
       IN  KeyEvents(events') =
             KeyEvents(concat([i \in 1..m |-> pressKey(tokens[i])])) \o << ReleaseAll >>]_vars

\* a combination line of six tokens has been run: five keys were pressed
C33_Witness ==
  /\ pc = "returned" /\ handler = "processDuckyLine"
  /\ lastLine = L.six_keys
  /\ CountOp(events, "press") = 5

\* the key codes of the four modifiers
ModifierCodes == { KEY_LEFT_CTRL, KEY_LEFT_SHIFT, KEY_LEFT_ALT, KEY_LEFT_GUI }

\* the place of a modifier in the order Ctrl, Shift, Alt, Gui
ModifierRank(k) ==
  CASE k = KEY_LEFT_CTRL -> 1
    [] k = KEY_LEFT_SHIFT -> 2
    [] k = KEY_LEFT_ALT -> 3
    [] k = KEY_LEFT_GUI -> 4

\* the presses of modifiers in ev, in order
IsModifierPress(e) == e.op = "press" /\ e.k \in ModifierCodes
ModifierPresses(ev) == SelectSeq(ev, IsModifierPress)

\* the modifier presses the first five tokens of a '+' line call for, in the
\* order written: a modifier name presses its modifier, a single character
\* that is typed with Shift presses Left Shift
TokenModifier(token0) ==
  LET token == trim(token0)
  IN  IF ModifierOf(token) # {}
      THEN << Press(CHOOSE k \in ModifierOf(token) : TRUE) >>
      ELSE IF Len(token) = 1 /\ charKeycode(token[1]).keycode > 0 /\ charKeycode(token[1]).useShift
           THEN << Press(KEY_LEFT_SHIFT) >>
           ELSE << >>
WrittenModifiers(line) ==
  LET tokens == PlusTokens(line)
  IN  concat([i \in 1..Min(Len(tokens), 5) |-> TokenModifier(tokens[i])])

\* C34 as stated: within the emission of a '+' combination the modifiers are
\* pressed in the order Ctrl, Shift, Alt, Gui, whatever their order in the
\* line.
C34_FixedModifierOrder ==
  [][(/\ pc = "call" /\ pc' = "returned" /\ handler' = "processDuckyLine"
      /\ IsPlusLine(trim(lastLine'))) =>
       LET mp == ModifierPresses(events')
       IN  \A i, j \in 1..Len(mp) :
             i < j => ModifierRank(mp[i].k) <= ModifierRank(mp[j].k)]_vars

\* C34, amended: the modifiers of a '+' combination are pressed in the order
\* in which the tokens of the line call for them (ALT+CTRL+DELETE presses Alt
\* before Ctrl, a character typed with Shift presses Shift at its place).
C34_WrittenModifierOrder ==
  [][(/\ pc = "call" /\ pc' = "returned" /\ handler' = "processDuckyLine"
      /\ IsPlusLine(trim(lastLine'))) =>
       ModifierPresses(events') = WrittenModifiers(trim(lastLine'))]_vars

\* ALT+CTRL+DELETE has been run: Alt went down before Ctrl
C34_Witness ==
  /\ pc = "returned" /\ handler = "processDuckyLine"
  /\ lastLine = L.alt_ctrl_delete
  /\ ModifierPresses(events) = << Press(KEY_LEFT_ALT), Press(KEY_LEFT_CTRL) >>

\* the number of delays of ev that last ms milliseconds
CountDelay(ev, ms) == Cardinality({ i \in PositionsOf(ev, "delay") : ev[i].k = ms })

\* C35: TYPESOFT:text follows every character of text with a delay of the
\* configured typing delay (TYPING_DELAY of the config file), with
\* layout-independent typing on and with it off.
C35_TypesoftConfiguredDelay ==
  [][(/\ pc = "call" /\ pc' = "returned" /\ handler' = "processInstructionLine"
      /\ equalsIgnoreCase(instructionSplit(trim(lastLine')).command, S.TYPESOFT)) =>
       CountDelay(events', config.typingDelay)
         >= Len(instructionSplit(trim(lastLine')).params)]_vars

\* the command words of the Ducky dialect
RecognizedCommands ==
  { S.DEFAULT_DELAY, S.DEFAULTDELAY, S.DELAY, S.STRING, S.STRINGLN, S.REPEAT,
    S.MENU, S.APP }
    \cup { mk[1] : mk \in ModifierKeys } \cup { nk[1] : nk \in NamedKeys }

\* the key events of a line taken as a '+' combination: pressKey on its
\* first five tokens, then one releaseAll
CombinationEvents(line) ==
  LET tokens == PlusTokens(line)
  IN  KeyEvents(concat([i \in 1..Min(Len(tokens), 5) |-> pressKey(tokens[i])]))
        \o << ReleaseAll >>

\* C36: a line whose command word is recognized is not taken as a '+'
\* combination even with a '+' in its params (STRING a+b types a+b); a line
\* whose command word is not recognized is taken as a '+' combination exactly
\* when the whole line holds a '+', after a space too (FOO a+b is split over
\* the whole line), and emits no key event otherwise.
C36_CombinationOnlyWhenUnrecognized ==
  [][(/\ pc = "call" /\ pc' = "returned" /\ handler' = "processDuckyLine"
      /\ ~startsWith(trim(lastLine'), S.REM)) =>
       LET line == trim(lastLine')
           hasPlus == \E i \in 1..Len(line) : line[i] = 43
       IN  IF DocSplit(line).command \in RecognizedCommands
           THEN /\ hasPlus => KeyEvents(events') # CombinationEvents(line)
                /\ (lastLine' = L.string_plus /\ ~config.useLayoutIndependent) =>
                     KeyEvents(events') = << Write(97), Write(43), Write(98) >>
           ELSE KeyEvents(events') =
                  IF hasPlus THEN CombinationEvents(line) ELSE << >>]_vars

\* FOO a+b has been run as a combination: its second token, b, was pressed
C36_Witness ==
  /\ pc = "returned" /\ handler = "processDuckyLine"
  /\ lastLine = L.foo_plus
  /\ KeyEvents(events) = CombinationEvents(L.foo_plus)
  /\ CountOp(events, "press") = 1

\* the larger of two numbers
Max(a, b) == IF a >= b THEN a ELSE b

\* C37: script execution ends: whenever repeat mode is on the repeat count
\* is not 0, whatever REPEAT_COUNT and the REPEAT lines say, so the endless
\* case of the loop condition is never met, and the passes made never exceed
\* the larger of 1 and the repeat count.
C37_RepeatTerminates ==
  /\ repeatScriptMode => repeatScriptCount # 0
  /\ currentRepeat <= Max(1, repeatScriptCount)
  /\ pc = "open" => currentRepeat < Max(1, repeatScriptCount)

\* a script ending in REPEAT x has been run by the standard loop: repeat mode
\* is on with a count of 1 and the loop has ended after one pass
C37_Witness ==
  /\ pc = "idle" /\ handler = "processDuckyLine"
  /\ lastLine = L.repeat_x
  /\ repeatScriptMode /\ repeatScriptCount = 1
  /\ currentRepeat = 1

\* C38: in the standard execution loop, when a pass over the script ends,
\* lineCount = executedCount + skippedCount for every script mode: every
\* line read was counted once, as executed or as skipped.
C38_CountsAddUp ==
  summary # << >> =>
    summary[1].lineCount = summary[1].executedCount + summary[1].skippedCount

\* C39: defaultDelay is not reset between two passes over a script: the
\* second pass emits the key events of the first, and differs from it in
\* the delays only, exactly where the first pass waited the initial default
\* delay of 0 and the second waits the default delay the first has left; it
\* does differ whenever the first pass waited such a delay and left a
\* default delay other than 0.
C39_DefaultDelayCarriedOver ==
  [][(pc = "replay2" /\ pc' = "replayed") =>
       /\ KeyEvents(events') = KeyEvents(events)
       /\ Len(events') = Len(events)
       /\ \A i \in 1..Len(events) :
            events'[i] # events[i] =>
              events[i] = Delay(0) /\ events'[i] = Delay(defaultDelay)
       /\ (defaultDelay # 0 /\ \E i \in 1..Len(events) : events[i] = Delay(0)) =>
            events' # events]_vars

\* STRING Hi! before DEFAULTDELAY 100 has been replayed twice by the direct
\* ASCII executor: the second pass ends the typing with a delay of 100
C39_Witness ==
  /\ pc = "replayed" /\ handler = "executeScript_DirectASCII"
  /\ script = << L.string_Hi, L.defaultdelay_100 >>
  /\ defaultDelay = 100
  /\ CountDelay(events, 100) >= 2

\* the number of flashLED calls recorded in fl that are the call f
CountFlash(fl, f) == Cardinality({ i \in 1..Len(fl) : fl[i] = f })

\* C40: the mount of the SD card is bounded and gates all that follows.  The
\* retry loop flashes before its second and its third SD.begin only and
\* stops at the first success, the recovery is entered once, after three
\* failures; when all five SD.begin calls fail setup() stops for good: no
\* configuration is read, no script file is chosen or opened and no key
\* event is emitted; a halted device takes no further step.
C40_SdMountGates ==
  /\ [][pc = "power" =>
          /\ CountFlash(errorFlashes', flash("LED_TX", 2, 100)) = Min(sdCard.failures, 2)
          /\ CountFlash(errorFlashes', flash("LED_USER", 2, 100))
               = IF sdCard.failures >= 3 THEN 1 ELSE 0
          /\ (pc' = "boot") = (sdCard.failures < 5)]_vars
  /\ [](sdCard.failures >= 5 =>
          /\ pc \in { "power", "halted" }
          /\ config = defaultConfig
          /\ scriptFile = << >>
          /\ fileOpen = "no"
          /\ handler = "none"
          /\ events = << >>
          /\ summary = << >>)
  /\ [][pc # "halted"]_vars

\* a card with a config.txt and a script on it has failed all five SD.begin
\* calls: the device is halted and has shown the error
C40_Witness ==
  /\ pc = "halted" /\ sdCard.failures = 5
  /\ configFile.exists /\ configFile.opens
  /\ K.payload_txt \in cardFiles
  /\ errorFlashes # << >>
  /\ events = << >>
====
